---- MODULE Spec2Model ----
(***************************************************************************)
(* SimpleBarCore (packages/simplebar-core/src/index.ts): the geometry and  *)
(* synchronisation engine of one widget instance, with the DOM it reads    *)
(* and writes, the animation-frame queue and the debounce timers.          *)
(*                                                                         *)
(* Numbers: JavaScript Number arithmetic is modelled as exact rational     *)
(* arithmetic; ~~v is truncation toward zero, and ~~ of NaN or +-Infinity  *)
(* (a division by zero) is 0.  A scroll offset is a rational [n, d] = n/d, *)
(* because drag() writes a fraction of the scroll range.                   *)
(***************************************************************************)
EXTENDS Integers, Sequences, FiniteSets, TLC

VARIABLES
    options,      \* this.options: autoHide, forceVisible, scrollbarMinSize, scrollbarMaxSize
    els,          \* which elements initDOM found (a missing one is null)
    css,          \* computed style of this.el: overflowX/Y and direction
    geom,         \* measured sizes per axis (DOM read surface)
    scroll,       \* contentWrapperEl.scrollLeft / scrollTop, as rationals
    rtlHelpers,   \* SimpleBarCore.rtlHelpers, the cached RTL profile
    scrollbarWidth, \* this.scrollbarWidth
    axis,         \* this.axis
    elStyles,     \* this.elStyles is set (a live CSSStyleDeclaration) or null
    isRtl,        \* this.isRtl (null is falsy: FALSE)
    dom,          \* what the instance wrote: styles, classes, listeners
    isScrolling, isMouseEntering, isDragging, draggedAxis,
    scrollXTicking, scrollYTicking,
    mouseX, mouseY,
    removePreventClickId, \* null (FALSE) or a pending setTimeout (TRUE)
    resizeObserverStarted,
    rafQueue,     \* animation-frame callbacks requested, in request order
    frameQueue,   \* callbacks of the frame being run, still to run
    timers,       \* the lodash debounce timers: pending and ms since the last call
    frameRecalcs, \* recalculate() calls made by the frame being run
    framePositions, \* per axis, positionScrollbar calls made by scrollX/scrollY in this frame
    scrollEventDue, \* the browser has a scroll event to deliver to onScroll
    scrollBurst,  \* scroll events delivered since the last frame began
    thrown        \* the error the last call into the instance raised, and the call

vars == <<options, els, css, geom, scroll, rtlHelpers, scrollbarWidth, axis,
          elStyles, isRtl, dom, isScrolling, isMouseEntering, isDragging,
          draggedAxis, scrollXTicking, scrollYTicking, mouseX, mouseY,
          removePreventClickId, resizeObserverStarted, rafQueue, frameQueue,
          timers, frameRecalcs, framePositions, scrollEventDue, scrollBurst,
          thrown>>

\* groups of variables, for the UNCHANGED clauses
config == <<options, els, css, rtlHelpers, scrollbarWidth>>

pointer == <<mouseX, mouseY>>

dragging == <<isDragging, draggedAxis, removePreventClickId>>

ticking == <<scrollXTicking, scrollYTicking>>

counters == <<frameRecalcs, framePositions, scrollBurst>>

Axes == {"x", "y"}

Other(a) == IF a = "x" THEN "y" ELSE "x"

----------------------------------------------------------------------------
(* Bounds of the model *)

\* longest animation-frame queue the model lets build up
MaxQueue == 3

\* native scroll events delivered between two frames
MaxBurst == 2

\* scroll ranges up to this are scrolled pixel by pixel, longer ones at three stops
MaxScroll == 6

\* one Tick of the clock, in ms
TickMs == 650

(* Program constants *)

stopScrollDelay == 1300

defaultScrollbarMinSize == 25

----------------------------------------------------------------------------
(* Number helpers *)

Abs(n) == IF n < 0 THEN -n ELSE n

Max(a, b) == IF a > b THEN a ELSE b

Min(a, b) == IF a < b THEN a ELSE b

\* ~~(n / d): truncation toward zero; a division by zero gives NaN or an
\* infinity, and ~~ of those is 0
TruncDiv(n, d) ==
    IF d = 0 THEN 0
    ELSE IF (n < 0) = (d < 0) THEN Abs(n) \div Abs(d)
    ELSE -(Abs(n) \div Abs(d))

\* a rational n/d with d > 0, an integer when the division is exact
Rat(n, d) ==
    IF d = 0 THEN [n |-> 0, d |-> 1]
    ELSE LET nn == IF d < 0 THEN -n ELSE n
             dd == Abs(d)
         IN IF nn % dd = 0 THEN [n |-> nn \div dd, d |-> 1] ELSE [n |-> nn, d |-> dd]

RatInt(k) == [n |-> k, d |-> 1]

RatNeg(r) == [n |-> -r.n, d |-> r.d]

NullRect == [left |-> 0, top |-> 0, width |-> 0, height |-> 0]

----------------------------------------------------------------------------
(* The DOM read surface *)

\* getBoundingClientRect() of the track of axis a: a band along its axis
TrackRect(a) ==
    IF a = "x"
    THEN [left |-> geom.x.trackOrigin, top |-> geom.x.trackCross,
          width |-> geom.x.trackSize, height |-> geom.x.trackThickness]
    ELSE [left |-> geom.y.trackCross, top |-> geom.y.trackOrigin,
          width |-> geom.y.trackThickness, height |-> geom.y.trackSize]

\* the inline offset (style.left / style.top) and length (style.width /
\* style.height) of the handle; an unset style counts 0
StyleOffset(dm, a) == IF dm.scrollbarOffset[a] = <<>> THEN 0 ELSE dm.scrollbarOffset[a][1]

StyleSize(dm, a) == IF dm.scrollbarSize[a] = <<>> THEN 0 ELSE dm.scrollbarSize[a][1]

\* getBoundingClientRect() of the handle of axis a: inside its track, at its
\* inline offset, with its inline length; all zero while display is none
ScrollbarRect(a) ==
    IF dom.scrollbarDisplay[a] = "none" THEN NullRect
    ELSE IF a = "x"
    THEN [left |-> geom.x.trackOrigin + StyleOffset(dom, "x"), top |-> geom.x.trackCross,
          width |-> StyleSize(dom, "x"), height |-> geom.x.trackThickness]
    ELSE [left |-> geom.y.trackCross, top |-> geom.y.trackOrigin + StyleOffset(dom, "y"),
          width |-> geom.y.trackThickness, height |-> StyleSize(dom, "y")]

\* rect[offsetAttr] and rect[sizeAttr] of an axis
RectOffset(rect, a) == IF a = "x" THEN rect.left ELSE rect.top

RectSize(rect, a) == IF a = "x" THEN rect.width ELSE rect.height

\* the range the browser clamps a written scroll offset to; in RTL the x
\* range is [-range, 0] on a browser that scrolls to negative values
ScrollRange(a) == Max(geom[a].scrollSize - geom[a].hostSize, 0)

ScrollsNegative(a) == a = "x" /\ css.direction = "rtl" /\ rtlHelpers.isScrollingToNegative

ClampScroll(a, r) ==
    LET lo == IF ScrollsNegative(a) THEN -ScrollRange(a) ELSE 0
        hi == IF ScrollsNegative(a) THEN 0 ELSE ScrollRange(a)
    IN IF r.n < lo * r.d THEN RatInt(lo)
       ELSE IF r.n > hi * r.d THEN RatInt(hi)
       ELSE r

----------------------------------------------------------------------------
(* SimpleBarCore *)

getRtlHelpers == rtlHelpers

canRecalculate ==
    els.heightAutoObserverEl /\ els.contentEl /\ els.contentWrapperEl /\ els.wrapperEl

\* isOverflowing after the raw comparison and the overflow: hidden override
firstPassOverflow(a) ==
    LET raw == IF a = "x"
               THEN geom.x.offsetSize # 0 /\ geom.x.scrollSize > geom.x.offsetSize
               ELSE geom.y.scrollSize > geom.y.wrapperSize
    IN IF css.overflow[a] = "hidden" THEN FALSE ELSE raw

\* the thickness subtracted whether or not the axis overflows
offsetForScrollbarAlways(a) == scrollbarWidth

offsetForScrollbar(a) == IF firstPassOverflow(a) THEN scrollbarWidth ELSE 0

finalOverflow(a) ==
    firstPassOverflow(a)
    /\ geom[a].scrollSize > geom[a].wrapperSize - offsetForScrollbar(Other(a))

optionForceVisible(a) == options.forceVisible = a \/ options.forceVisible = "true"

getScrollbarSize(ax, a) ==
    IF ~ax[a].isOverflowing \/ ~els.contentEl THEN 0
    ELSE LET contentSize == geom[a].scrollSize
             trackSize == IF els.track[a] THEN geom[a].trackSize ELSE 0
             sized == Max(TruncDiv(trackSize * trackSize, contentSize),
                          options.scrollbarMinSize)
         IN IF options.scrollbarMaxSize # 0
            THEN Min(sized, options.scrollbarMaxSize)
            ELSE sized

\* the RTL negations with the test of isScrollingToNegative turned round
rtlScrollOffsetSwapped(rtl, a) ==
    LET s0 == scroll[a]
        s1 == IF a = "x" /\ rtl /\ getRtlHelpers.isScrollOriginAtZero
              THEN RatNeg(s0) ELSE s0
    IN IF a = "x" /\ rtl
       THEN (IF getRtlHelpers.isScrollingToNegative THEN RatNeg(s1) ELSE s1)
       ELSE s1

\* the scroll offset positionScrollbar works with, after the RTL negations
rtlScrollOffset(rtl, a) ==
    LET s0 == scroll[a]
        s1 == IF a = "x" /\ rtl /\ getRtlHelpers.isScrollOriginAtZero
              THEN RatNeg(s0) ELSE s0
    IN IF a = "x" /\ rtl
       THEN (IF getRtlHelpers.isScrollingToNegative THEN s1 ELSE RatNeg(s1))
       ELSE s1

\* the handle offset taken against the content size, not the scroll range
handleOffsetByContent(ax, rtl, a) ==
    LET contentSize == geom[a].scrollSize
        trackSize == IF els.track[a] THEN geom[a].trackSize ELSE 0
        s == rtlScrollOffset(rtl, a)
    IN TruncDiv((trackSize - ax[a].scrollbar.size) * s.n, s.d * contentSize)

\* ~~((trackSize - scrollbar.size) * scrollPourcent)
handleOffsetFor(ax, rtl, a) ==
    LET contentSize == geom[a].scrollSize
        trackSize == IF els.track[a] THEN geom[a].trackSize ELSE 0
        hostSize == geom[a].hostSize
        s == rtlScrollOffset(rtl, a)
    IN TruncDiv((trackSize - ax[a].scrollbar.size) * s.n,
                s.d * (contentSize - hostSize))

\* the offset positionScrollbar writes to style.left / style.top
writtenOffset(ax, rtl, a) ==
    LET trackSize == IF els.track[a] THEN geom[a].trackSize ELSE 0
        handleOffset == handleOffsetFor(ax, rtl, a)
        mirrored == IF a = "x" /\ rtl
                    THEN -handleOffset + (trackSize - ax[a].scrollbar.size)
                    ELSE handleOffset
    IN IF a = "x" THEN mirrored
       ELSE IF mirrored = 0 THEN 2 ELSE mirrored

\* positionScrollbar moving the handle by the offset instead of to it
positionScrollbarDrift(ax, dm, st, rtl, a) ==
    IF ~ax[a].isOverflowing \/ ~els.contentWrapperEl \/ ~els.scrollbar[a] \/ ~st
    THEN dm
    ELSE [dm EXCEPT !.scrollbarOffset[a] =
                        <<StyleOffset(dm, a) + writtenOffset(ax, rtl, a)>>]

\* positionScrollbar(axis): the dom it leaves; st is this.elStyles being set
positionScrollbar(ax, dm, st, rtl, a) ==
    IF ~ax[a].isOverflowing \/ ~els.contentWrapperEl \/ ~els.scrollbar[a] \/ ~st
    THEN dm
    ELSE [dm EXCEPT !.scrollbarOffset[a] = <<writtenOffset(ax, rtl, a)>>]

\* the track shown for overflow alone, forceVisible forgotten
toggleTrackVisibilityByOverflow(ax, dm, a) ==
    IF ~els.track[a] \/ ~els.scrollbar[a] \/ ~els.contentWrapperEl THEN dm
    ELSE LET shown == ax[a].isOverflowing
         IN [dm EXCEPT !.trackVisibility[a] = IF shown THEN "visible" ELSE "hidden",
                       !.wrapperOverflow[a] = IF shown THEN "scroll" ELSE "hidden",
                       !.scrollableClass[a] = shown,
                       !.scrollbarDisplay[a] =
                           IF ax[a].isOverflowing THEN "block" ELSE "none"]

toggleTrackVisibility(ax, dm, a) ==
    IF ~els.track[a] \/ ~els.scrollbar[a] \/ ~els.contentWrapperEl THEN dm
    ELSE LET shown == ax[a].isOverflowing \/ ax[a].forceVisible
         IN [dm EXCEPT !.trackVisibility[a] = IF shown THEN "visible" ELSE "hidden",
                       !.wrapperOverflow[a] = IF shown THEN "scroll" ELSE "hidden",
                       !.scrollableClass[a] = shown,
                       !.scrollbarDisplay[a] =
                           IF ax[a].isOverflowing THEN "block" ELSE "none"]

\* recalculate(): the axis state and dom it leaves (this.elStyles becomes
\* set and this.isRtl the computed direction); a no-op without its elements
recalculate(ax, dm) ==
    IF ~canRecalculate THEN [axis |-> ax, dom |-> dm]
    ELSE
    LET rtl == css.direction = "rtl"
        ax1 == [a \in Axes |->
                  [ax[a] EXCEPT !.isOverflowing = finalOverflow(a),
                                !.forceVisible = optionForceVisible(a)]]
        ax2 == [a \in Axes |->
                  [ax1[a] EXCEPT !.scrollbar.size = getScrollbarSize(ax1, a)]]
        dm1 == [dm EXCEPT !.scrollbarSize =
                  [a \in Axes |-> IF els.scrollbar[a]
                                  THEN <<ax2[a].scrollbar.size>>
                                  ELSE dm.scrollbarSize[a]]]
        dm2 == positionScrollbar(ax2, dm1, TRUE, rtl, "x")
        dm3 == positionScrollbar(ax2, dm2, TRUE, rtl, "y")
        dm4 == toggleTrackVisibility(ax2, dm3, "x")
        dm5 == toggleTrackVisibility(ax2, dm4, "y")
    IN [axis |-> ax2, dom |-> dm5]

showScrollbar(ax, dm, a) ==
    IF ax[a].isOverflowing /\ ~ax[a].scrollbar.isVisible
    THEN [axis |-> [ax EXCEPT ![a].scrollbar.isVisible = TRUE],
          dom |-> [dm EXCEPT !.visibleClass[a] = els.scrollbar[a] \/ dm.visibleClass[a]]]
    ELSE [axis |-> ax, dom |-> dm]

\* hideScrollbar without its test of isDragging
hideScrollbarWhileDragging(ax, dm, a) ==
    IF ax[a].isOverflowing /\ ax[a].scrollbar.isVisible
    THEN [axis |-> [ax EXCEPT ![a].scrollbar.isVisible = FALSE],
          dom |-> [dm EXCEPT !.visibleClass[a] = FALSE]]
    ELSE [axis |-> ax, dom |-> dm]

hideScrollbar(ax, dm, a) ==
    IF isDragging THEN [axis |-> ax, dom |-> dm]
    ELSE IF ax[a].isOverflowing /\ ax[a].scrollbar.isVisible
    THEN [axis |-> [ax EXCEPT ![a].scrollbar.isVisible = FALSE],
          dom |-> [dm EXCEPT !.visibleClass[a] = FALSE]]
    ELSE [axis |-> ax, dom |-> dm]

----------------------------------------------------------------------------
(* Construction *)

\* the constructor's this.axis (lines 154-181); a null size or rect reads as 0
defaultAxis ==
    [a \in Axes |->
       [dragOffset |-> 0, isOverflowing |-> TRUE, forceVisible |-> FALSE,
        track |-> [rect |-> NullRect],
        scrollbar |-> [size |-> 0, rect |-> NullRect, isVisible |-> FALSE]]]

\* the DOM after initDOM: nothing written but the visible class of autoHide: false;
\* lastClick is what became of the last click in the document: "prevented" by
\* the capturing preventClick listener, or "delivered" to its target
initDOM(opts, e) ==
    [scrollbarOffset |-> [a \in Axes |-> <<>>],
     scrollbarSize |-> [a \in Axes |-> <<>>],
     trackVisibility |-> [a \in Axes |-> ""],
     scrollbarDisplay |-> [a \in Axes |-> ""],
     wrapperOverflow |-> [a \in Axes |-> ""],
     scrollableClass |-> [a \in Axes |-> FALSE],
     visibleClass |-> [a \in Axes |-> ~opts.autoHide /\ e.scrollbar[a]],
     draggingClass |-> FALSE,
     dragListeners |-> FALSE,
     clickSuppressor |-> FALSE,
     lastClick |-> "none",
     listeners |-> {}]

\* the listeners initListeners registers on the element, the scrolling
\* element and the window, and the two observers of the content
ElementListeners == {"mouseenter", "pointerdown", "mousemove", "mouseleave"}

initListeners(d, e) ==
    [d EXCEPT !.listeners =
        ElementListeners
        \cup (IF e.contentWrapperEl THEN {"scroll"} ELSE {})
        \cup {"resize"}
        \cup (IF e.contentEl THEN {"resizeObserver", "mutationObserver"} ELSE {})]

NoTimer == [pending |-> FALSE, age |-> 0]

\* no call has thrown
NoError == [by |-> "", error |-> ""]

\* one axis of a layout: content extent c, viewport v, track length t, and
\* pad, the padding and border that a border-box CSS size adds to the host
AxisLayout(c, v, t, pad) ==
    [scrollSize |-> c, offsetSize |-> v, wrapperSize |-> v, hostSize |-> v + pad,
     trackSize |-> t]

\* both axes, with the tracks laid along the bottom and the right edge
Geometry(lx, ly) ==
    [x |-> [scrollSize |-> lx.scrollSize, offsetSize |-> lx.offsetSize,
            wrapperSize |-> lx.wrapperSize, hostSize |-> lx.hostSize,
            trackSize |-> lx.trackSize, trackOrigin |-> 0,
            trackCross |-> ly.wrapperSize - 1, trackThickness |-> 1],
     y |-> [scrollSize |-> ly.scrollSize, offsetSize |-> ly.offsetSize,
            wrapperSize |-> ly.wrapperSize, hostSize |-> ly.hostSize,
            trackSize |-> ly.trackSize, trackOrigin |-> 0,
            trackCross |-> lx.wrapperSize - 1, trackThickness |-> 1]]

\* what may be passed as the element: its typeof, whether it is null and
\* whether it has a nodeName
Element == [type |-> "object", isNull |-> FALSE, nodeName |-> TRUE]

Targets ==
    {Element,
     [type |-> "object", isNull |-> FALSE, nodeName |-> FALSE],
     [type |-> "object", isNull |-> TRUE, nodeName |-> FALSE],
     [type |-> "string", isNull |-> FALSE, nodeName |-> FALSE],
     [type |-> "number", isNull |-> FALSE, nodeName |-> FALSE],
     [type |-> "undefined", isNull |-> FALSE, nodeName |-> FALSE]}

AllEls ==
    [el |-> Element,
     heightAutoObserverEl |-> TRUE, contentEl |-> TRUE, contentWrapperEl |-> TRUE,
     wrapperEl |-> TRUE, track |-> [a \in Axes |-> TRUE],
     scrollbar |-> [a \in Axes |-> TRUE]]

\* the fields before initDOM has looked anything up
NoEls(t) ==
    [el |-> t,
     heightAutoObserverEl |-> FALSE, contentEl |-> FALSE, contentWrapperEl |-> FALSE,
     wrapperEl |-> FALSE, track |-> [a \in Axes |-> FALSE],
     scrollbar |-> [a \in Axes |-> FALSE]]

\* SimpleBarCore.rtlHelpers before the first probe: null
NotProbed == [probed |-> FALSE]

RtlProfiles == [isScrollOriginAtZero : BOOLEAN, isScrollingToNegative : BOOLEAN]

\* the state the constructor leaves for one configuration: initDOM, the RTL
\* probe, the thickness probe, recalculate(), initListeners()
Constructed(c) ==
    /\ options = c.options
    /\ els = c.els
    /\ css = c.css
    /\ geom = c.geom
    /\ rtlHelpers = c.rtlHelpers
    /\ scrollbarWidth = c.scrollbarWidth
    /\ scroll = [a \in Axes |-> RatInt(0)]
    /\ isScrolling = FALSE
    /\ isMouseEntering = FALSE
    /\ isDragging = FALSE
    /\ draggedAxis = "none"
    /\ scrollXTicking = FALSE
    /\ scrollYTicking = FALSE
    /\ mouseX = 0
    /\ mouseY = 0
    /\ removePreventClickId = FALSE
    /\ resizeObserverStarted = FALSE
    /\ LET r == recalculate(defaultAxis, initDOM(c.options, c.els))
       IN /\ axis = r.axis
          /\ dom = initListeners(r.dom, c.els)
    /\ elStyles = canRecalculate
    /\ isRtl = (canRecalculate /\ css.direction = "rtl")
    /\ rafQueue = IF els.contentEl THEN <<"resizeObserverStarted">> ELSE <<>>
    /\ frameQueue = <<>>
    /\ timers = [stop |-> NoTimer, enter |-> NoTimer,
                 move |-> [waiting |-> FALSE, args |-> <<>>],
                 resize |-> [waiting |-> FALSE, again |-> FALSE]]
    /\ frameRecalcs = 0
    /\ framePositions = [a \in Axes |-> 0]
    /\ scrollEventDue = FALSE
    /\ scrollBurst = 0
    /\ thrown = NoError

\* the test of line 183 with the element check left to initDOM
constructorThrowsUnlessObject(t) ==
    IF t.type # "object" THEN "Error"
    ELSE IF t.isNull THEN "TypeError"
    ELSE ""

\* the error the constructor raises at line 183 for the target t, "" for
\* none: an Error for what is no object or has no nodeName, the TypeError of
\* reading nodeName of null
constructorThrows(t) ==
    IF t.type # "object" THEN "Error"
    ELSE IF t.isNull THEN "TypeError"
    ELSE IF ~t.nodeName THEN "Error"
    ELSE ""

\* the state a throwing constructor leaves: the assignments of lines
\* 148-181 and the field initialisers, with e the elements looked up and r
\* the RTL profile probed before it threw
Unconstructed(c, e, r, err) ==
    /\ options = c.options
    /\ els = e
    /\ css = c.css
    /\ geom = c.geom
    /\ rtlHelpers = r
    /\ scrollbarWidth = 0
    /\ scroll = [a \in Axes |-> RatInt(0)]
    /\ isScrolling = FALSE
    /\ isMouseEntering = FALSE
    /\ isDragging = FALSE
    /\ draggedAxis = "none"
    /\ scrollXTicking = FALSE
    /\ scrollYTicking = FALSE
    /\ mouseX = 0
    /\ mouseY = 0
    /\ removePreventClickId = FALSE
    /\ resizeObserverStarted = FALSE
    /\ axis = defaultAxis
    /\ dom = initDOM(c.options, e)
    /\ elStyles = FALSE
    /\ isRtl = FALSE
    /\ rafQueue = <<>>
    /\ frameQueue = <<>>
    /\ timers = [stop |-> NoTimer, enter |-> NoTimer,
                 move |-> [waiting |-> FALSE, args |-> <<>>],
                 resize |-> [waiting |-> FALSE, again |-> FALSE]]
    /\ frameRecalcs = 0
    /\ framePositions = [a \in Axes |-> 0]
    /\ scrollEventDue = FALSE
    /\ scrollBurst = 0
    /\ thrown = [by |-> "constructor", error |-> err]

\* the constructor threw at its test of the element: nothing was looked up
NotConstructed(c, t, err) == Unconstructed(c, NoEls(t), NotProbed, err)

\* new SimpleBarCore(t, c.options) on a page described by c
New(t, c) ==
    IF constructorThrows(t) = ""
    THEN Constructed([c EXCEPT !.els.el = t])
    ELSE NotConstructed(c, t, constructorThrows(t))

\* a caller holds the instance: its constructor returned
Instantiated == thrown.by # "constructor"

----------------------------------------------------------------------------
(* Recalculation and its triggers *)

\* no animation frame is being run: handlers and the environment may act
Idle == frameQueue = <<>>

\* the listener or observer l of the instance is registered: its events arrive
Listening(l) == l \in dom.listeners

\* what a recalculate() call leaves, for the callers below
Recalculated ==
    LET r == recalculate(axis, dom)
    IN /\ axis' = r.axis
       /\ dom' = r.dom
       /\ elStyles' = (elStyles \/ canRecalculate)
       /\ isRtl' = IF canRecalculate THEN css.direction = "rtl" ELSE isRtl

\* the public recalculate()
Recalculate ==
    /\ Idle
    /\ Recalculated
    /\ UNCHANGED <<config, thrown, geom, scroll, isScrolling, isMouseEntering, dragging,
                   ticking, pointer, resizeObserverStarted, rafQueue, frameQueue,
                   timers, counters, scrollEventDue>>

\* the frame callbacks a resize notification requests (lines 372-378)
resizeObserverCallback(q) ==
    IF ~resizeObserverStarted THEN q ELSE Append(q, "recalculate")

\* the frame callbacks a mutation notification requests (lines 389-393)
mutationObserverCallback(q) == Append(q, "recalculate")

ResizeObserved ==
    /\ Idle
    /\ Listening("resizeObserver")
    /\ els.contentEl
    /\ Len(rafQueue) < MaxQueue
    /\ rafQueue' = resizeObserverCallback(rafQueue)
    /\ UNCHANGED <<config, thrown, geom, scroll, axis, elStyles, isRtl, dom, isScrolling,
                   isMouseEntering, dragging, ticking, pointer,
                   resizeObserverStarted, frameQueue, timers, counters,
                   scrollEventDue>>

MutationObserved ==
    /\ Idle
    /\ Listening("mutationObserver")
    /\ els.contentEl
    /\ Len(rafQueue) < MaxQueue
    /\ rafQueue' = mutationObserverCallback(rafQueue)
    /\ UNCHANGED <<config, thrown, geom, scroll, axis, elStyles, isRtl, dom, isScrolling,
                   isMouseEntering, dragging, ticking, pointer,
                   resizeObserverStarted, frameQueue, timers, counters,
                   scrollEventDue>>

\* the layout changes to g; the browser keeps the scroll offsets in range
Relayout(g) ==
    /\ Idle
    /\ g # geom
    /\ geom' = g
    /\ scroll' = [a \in Axes |->
                    LET r == Max(g[a].scrollSize - g[a].hostSize, 0)
                        s == scroll[a]
                    IN IF s.n > r * s.d THEN RatInt(r)
                       ELSE IF s.n < (-r) * s.d THEN RatInt(-r)
                       ELSE s]
    /\ scrollEventDue' = (scrollEventDue \/ scroll' # scroll)
    /\ UNCHANGED <<config, thrown, axis, elStyles, isRtl, dom, isScrolling,
                   isMouseEntering, dragging, ticking, pointer,
                   resizeObserverStarted, rafQueue, frameQueue, timers, counters>>

----------------------------------------------------------------------------
(* Scroll synchronizer *)

\* the offsets a scroll of axis a can reach: every pixel of a short range,
\* the ends and the middle of a long one; negative where the browser scrolls
\* to negative values
ScrollStops(a) ==
    LET r == ScrollRange(a)
        stops == IF r <= MaxScroll THEN 0..r ELSE {0, r \div 2, r}
    IN {RatInt(IF ScrollsNegative(a) THEN -k ELSE k) : k \in stops}

\* the user (or a script) scrolls axis a to offset s
UserScroll(a, s) ==
    /\ Idle
    /\ els.contentWrapperEl
    /\ scrollBurst < MaxBurst
    /\ s # scroll[a]
    /\ scroll' = [scroll EXCEPT ![a] = s]
    /\ scrollEventDue' = TRUE
    /\ UNCHANGED <<config, thrown, geom, axis, elStyles, isRtl, dom, isScrolling,
                   isMouseEntering, dragging, ticking, pointer,
                   resizeObserverStarted, rafQueue, frameQueue, timers, counters>>

\* onScroll requesting its frames without looking at the ticking flags
onScrollFramesUnguarded(q) == q \o <<"scrollX", "scrollY">>

\* the frame callbacks onScroll requests (lines 614-622)
onScrollFrames(q) ==
    q \o (IF ~scrollXTicking THEN <<"scrollX">> ELSE <<>>)
      \o (IF ~scrollYTicking THEN <<"scrollY">> ELSE <<>>)

\* a debounced function is called: its timer (re)starts
debounced(t) == [pending |-> TRUE, age |-> 0]

onScroll ==
    /\ Idle
    /\ Listening("scroll")
    /\ scrollEventDue
    /\ scrollEventDue' = FALSE
    /\ scrollBurst' = scrollBurst + 1
    /\ rafQueue' = onScrollFrames(rafQueue)
    /\ scrollXTicking' = TRUE
    /\ scrollYTicking' = TRUE
    /\ isScrolling' = TRUE
    /\ LET r1 == showScrollbar(axis, dom, "x")
           r2 == showScrollbar(r1.axis, r1.dom, "y")
       IN /\ axis' = r2.axis
          /\ dom' = r2.dom
    /\ timers' = [timers EXCEPT !.stop = debounced(timers.stop)]
    /\ UNCHANGED <<config, thrown, geom, scroll, elStyles, isRtl, isMouseEntering,
                   dragging, pointer, resizeObserverStarted, frameQueue,
                   frameRecalcs, framePositions>>

\* the browser starts an animation frame: the callbacks requested so far
\* run in request order, after the scroll events of the frame were delivered
BeginFrame ==
    /\ Idle
    /\ ~scrollEventDue
    /\ rafQueue # <<>> \/ scrollBurst # 0
    /\ frameQueue' = rafQueue
    /\ rafQueue' = <<>>
    /\ frameRecalcs' = 0
    /\ framePositions' = [a \in Axes |-> 0]
    /\ scrollBurst' = 0
    /\ UNCHANGED <<config, thrown, geom, scroll, axis, elStyles, isRtl, dom, isScrolling,
                   isMouseEntering, dragging, ticking, pointer,
                   resizeObserverStarted, timers, scrollEventDue>>

\* a scroll callback that leaves its ticking flag set
scrollAxisKeepingFlag(a) ==
    /\ frameQueue # <<>>
    /\ Head(frameQueue) = (IF a = "x" THEN "scrollX" ELSE "scrollY")
    /\ frameQueue' = Tail(frameQueue)
    /\ IF axis[a].isOverflowing
       THEN /\ dom' = positionScrollbar(axis, dom, elStyles, isRtl, a)
            /\ framePositions' = [framePositions EXCEPT ![a] = @ + 1]
       ELSE UNCHANGED <<dom, framePositions>>
    /\ UNCHANGED <<config, thrown, geom, scroll, axis, elStyles, isRtl, isScrolling,
                   isMouseEntering, dragging, ticking, pointer, resizeObserverStarted,
                   rafQueue, timers, frameRecalcs, scrollBurst, scrollEventDue>>

\* scrollX / scrollY (lines 634-648) as frame callbacks
scrollAxis(a) ==
    /\ frameQueue # <<>>
    /\ Head(frameQueue) = (IF a = "x" THEN "scrollX" ELSE "scrollY")
    /\ frameQueue' = Tail(frameQueue)
    /\ IF axis[a].isOverflowing
       THEN /\ dom' = positionScrollbar(axis, dom, elStyles, isRtl, a)
            /\ framePositions' = [framePositions EXCEPT ![a] = @ + 1]
       ELSE UNCHANGED <<dom, framePositions>>
    /\ IF a = "x"
       THEN scrollXTicking' = FALSE /\ UNCHANGED scrollYTicking
       ELSE scrollYTicking' = FALSE /\ UNCHANGED scrollXTicking
    /\ UNCHANGED <<config, thrown, geom, scroll, axis, elStyles, isRtl, isScrolling,
                   isMouseEntering, dragging, pointer, resizeObserverStarted,
                   rafQueue, timers, frameRecalcs, scrollBurst, scrollEventDue>>

scrollX == scrollAxis("x")

scrollY == scrollAxis("y")

\* the frame callback of a resize or mutation notification: recalculate()
FrameRecalculate ==
    /\ frameQueue # <<>>
    /\ Head(frameQueue) = "recalculate"
    /\ frameQueue' = Tail(frameQueue)
    /\ Recalculated
    /\ frameRecalcs' = frameRecalcs + 1
    /\ UNCHANGED <<config, thrown, geom, scroll, isScrolling, isMouseEntering, dragging,
                   ticking, pointer, resizeObserverStarted, rafQueue, timers,
                   framePositions, scrollBurst, scrollEventDue>>

\* the frame callback initListeners requests (lines 383-385)
FrameResizeObserverStarted ==
    /\ frameQueue # <<>>
    /\ Head(frameQueue) = "resizeObserverStarted"
    /\ frameQueue' = Tail(frameQueue)
    /\ resizeObserverStarted' = TRUE
    /\ UNCHANGED <<config, thrown, geom, scroll, axis, elStyles, isRtl, dom, isScrolling,
                   isMouseEntering, dragging, ticking, pointer, rafQueue, timers,
                   counters, scrollEventDue>>

----------------------------------------------------------------------------
(* Visibility policy: the debounce timers *)

\* TickMs pass; a timer's age stops counting once it is due
Tick ==
    /\ Idle
    /\ \E k \in {"stop", "enter"} : timers[k].pending /\ timers[k].age < stopScrollDelay
    /\ timers' = [k \in DOMAIN timers |->
                    IF k \in {"stop", "enter"} /\ timers[k].pending
                    THEN [timers[k] EXCEPT !.age = Min(@ + TickMs, stopScrollDelay)]
                    ELSE timers[k]]
    /\ UNCHANGED <<config, thrown, geom, scroll, axis, elStyles, isRtl, dom, isScrolling,
                   isMouseEntering, dragging, ticking, pointer,
                   resizeObserverStarted, rafQueue, frameQueue, counters,
                   scrollEventDue>>

\* a debounce timer may invoke its function: stopScrollDelay passed since the last call
due(t) == t.pending /\ t.age >= stopScrollDelay

\* the handles hidden on expiry whatever options.autoHide says
hideBothAlways(ax, dm) ==
    LET r1 == hideScrollbar(ax, dm, "x")
    IN hideScrollbar(r1.axis, r1.dom, "y")

\* what _onStopScrolling and _onMouseEntered do to the handles (lines 651-654, 679-682)
hideBoth(ax, dm) ==
    IF options.autoHide
    THEN LET r1 == hideScrollbar(ax, dm, "x")
         IN hideScrollbar(r1.axis, r1.dom, "y")
    ELSE [axis |-> ax, dom |-> dm]

_onStopScrolling ==
    /\ Idle
    /\ due(timers.stop)
    /\ timers' = [timers EXCEPT !.stop = NoTimer]
    /\ LET r == hideBoth(axis, dom)
       IN /\ axis' = r.axis
          /\ dom' = r.dom
    /\ isScrolling' = FALSE
    /\ UNCHANGED <<config, thrown, geom, scroll, elStyles, isRtl, isMouseEntering,
                   dragging, ticking, pointer, resizeObserverStarted, rafQueue,
                   frameQueue, counters, scrollEventDue>>

_onMouseEntered ==
    /\ Idle
    /\ due(timers.enter)
    /\ timers' = [timers EXCEPT !.enter = NoTimer]
    /\ LET r == hideBoth(axis, dom)
       IN /\ axis' = r.axis
          /\ dom' = r.dom
    /\ isMouseEntering' = FALSE
    /\ UNCHANGED <<config, thrown, geom, scroll, elStyles, isRtl, isScrolling, dragging,
                   ticking, pointer, resizeObserverStarted, rafQueue, frameQueue,
                   counters, scrollEventDue>>

onMouseEnter ==
    /\ Idle
    /\ Listening("mouseenter")
    /\ LET r1 == showScrollbar(axis, dom, "x")
           r2 == showScrollbar(r1.axis, r1.dom, "y")
       IN IF ~isMouseEntering
          THEN axis' = r2.axis /\ dom' = r2.dom
          ELSE UNCHANGED <<axis, dom>>
    /\ isMouseEntering' = TRUE
    /\ timers' = [timers EXCEPT !.enter = debounced(timers.enter)]
    /\ UNCHANGED <<config, thrown, geom, scroll, elStyles, isRtl, isScrolling, dragging,
                   ticking, pointer, resizeObserverStarted, rafQueue, frameQueue,
                   counters, scrollEventDue>>

----------------------------------------------------------------------------
(* Mouse tracking *)

\* onMouseMoveForAxis: the rects are measured anew
onMouseMoveForAxis(ax, a) ==
    IF ~els.track[a] \/ ~els.scrollbar[a] THEN ax
    ELSE [ax EXCEPT ![a].track.rect = TrackRect(a),
                    ![a].scrollbar.rect = ScrollbarRect(a)]

\* the axis state _onMouseMove leaves (lines 691-697)
mouseMoved(ax) ==
    LET ax1 == IF ax.x.isOverflowing \/ ax.x.forceVisible
               THEN onMouseMoveForAxis(ax, "x") ELSE ax
    IN IF ax1.y.isOverflowing \/ ax1.y.forceVisible
       THEN onMouseMoveForAxis(ax1, "y") ELSE ax1

\* positions of the pointer that matter: outside the widget, on each handle,
\* on each track off its handle, and the corner where the tracks end
HandlePoint(a) ==
    LET along == geom[a].trackOrigin + StyleOffset(dom, a) + Min(1, StyleSize(dom, a))
    IN IF a = "x" THEN [x |-> along, y |-> geom.x.trackCross]
       ELSE [x |-> geom.y.trackCross, y |-> along]

TrackPoint(a) ==
    LET along == IF StyleOffset(dom, a) > 0 THEN geom[a].trackOrigin
                 ELSE geom[a].trackOrigin + geom[a].trackSize
    IN IF a = "x" THEN [x |-> along, y |-> geom.x.trackCross]
       ELSE [x |-> geom.y.trackCross, y |-> along]

CornerPoint ==
    [x |-> geom.x.trackOrigin + geom.x.trackSize,
     y |-> geom.y.trackOrigin + geom.y.trackSize]

PointerPoints ==
    {[x |-> -1, y |-> -1], CornerPoint}
    \cup {HandlePoint(a) : a \in Axes} \cup {TrackPoint(a) : a \in Axes}

\* a mousemove on the element, through throttle(_onMouseMove, 64): run at
\* once when no window is open, else kept for the end of the window.  The
\* capturing drag listener stops the event before it gets here.
MouseMove(p) ==
    /\ Idle
    /\ Listening("mousemove")
    /\ ~dom.dragListeners
    /\ IF ~timers.move.waiting
       THEN /\ mouseX' = p.x
            /\ mouseY' = p.y
            /\ axis' = mouseMoved(axis)
            /\ timers' = [timers EXCEPT !.move = [waiting |-> TRUE, args |-> <<>>]]
       ELSE /\ timers' = [timers EXCEPT !.move.args = <<p>>]
            /\ UNCHANGED <<pointer, axis>>
    /\ UNCHANGED <<config, thrown, geom, scroll, elStyles, isRtl, dom, isScrolling,
                   isMouseEntering, dragging, ticking, resizeObserverStarted,
                   rafQueue, frameQueue, counters, scrollEventDue>>

\* the throttle window ends: the kept call, if any, runs
MouseMoveTrailing ==
    /\ Idle
    /\ timers.move.waiting
    /\ timers' = [timers EXCEPT !.move = [waiting |-> FALSE, args |-> <<>>]]
    /\ IF timers.move.args # <<>>
       THEN /\ mouseX' = timers.move.args[1].x
            /\ mouseY' = timers.move.args[1].y
            /\ axis' = mouseMoved(axis)
       ELSE UNCHANGED <<pointer, axis>>
    /\ UNCHANGED <<config, thrown, geom, scroll, elStyles, isRtl, dom, isScrolling,
                   isMouseEntering, dragging, ticking, resizeObserverStarted,
                   rafQueue, frameQueue, counters, scrollEventDue>>

onMouseLeave ==
    /\ Idle
    /\ Listening("mouseleave")
    /\ timers' = [timers EXCEPT !.move = [waiting |-> FALSE, args |-> <<>>]]
    /\ mouseX' = -1
    /\ mouseY' = -1
    /\ isMouseEntering' = FALSE
    /\ UNCHANGED <<config, thrown, geom, scroll, axis, elStyles, isRtl, dom, isScrolling,
                   dragging, ticking, resizeObserverStarted, rafQueue, frameQueue,
                   counters, scrollEventDue>>

----------------------------------------------------------------------------
(* Drag controller *)

isWithinBounds(bbox) ==
    /\ mouseX >= bbox.left
    /\ mouseX <= bbox.left + bbox.width
    /\ mouseY >= bbox.top
    /\ mouseY <= bbox.top + bbox.height

\* onDragStart(e, axis) on d, the fields a pointer-down works on
\* onDragStart that leaves a pending removal timer running
onDragStartKeepingTimer(d, e, a) ==
    LET eventOffset == IF a = "y" THEN e.y ELSE e.x
    IN [axis |-> [d.axis EXCEPT ![a].dragOffset =
                     eventOffset - RectOffset(d.axis[a].scrollbar.rect, a)],
        isDragging |-> TRUE,
        draggedAxis |-> a,
        dom |-> [d.dom EXCEPT !.draggingClass = TRUE,
                              !.dragListeners = TRUE,
                              !.clickSuppressor = TRUE],
        removePreventClickId |-> d.removePreventClickId]

onDragStart(d, e, a) ==
    LET eventOffset == IF a = "y" THEN e.y ELSE e.x
    IN [axis |-> [d.axis EXCEPT ![a].dragOffset =
                     eventOffset - RectOffset(d.axis[a].scrollbar.rect, a)],
        isDragging |-> TRUE,
        draggedAxis |-> a,
        dom |-> [d.dom EXCEPT !.draggingClass = TRUE,
                              !.dragListeners = TRUE,
                              !.clickSuppressor = TRUE],
        removePreventClickId |-> FALSE]

\* the part of onPointerEvent for one axis whose track holds the pointer
\* (lines 751-758, 760-767)
pointerDownOnAxis(d, e, a) ==
    LET d1 == [d EXCEPT !.axis[a].scrollbar.rect = ScrollbarRect(a)]
    IN IF isWithinBounds(d1.axis[a].scrollbar.rect)
       THEN onDragStart(d1, e, a)
       ELSE d1

\* onPointerEvent(e) for a pointerdown e = [x, y, pointerType]
onPointerEvent(d, e) ==
    IF ~els.track.x \/ ~els.track.y \/ ~els.scrollbar.x \/ ~els.scrollbar.y
    THEN d
    ELSE
    LET d1 == [d EXCEPT !.axis.x.track.rect = TrackRect("x"),
                        !.axis.y.track.rect = TrackRect("y")]
        isWithinTrackXBounds ==
            (d1.axis.x.isOverflowing \/ d1.axis.x.forceVisible)
            /\ isWithinBounds(d1.axis.x.track.rect)
        isWithinTrackYBounds ==
            (d1.axis.y.isOverflowing \/ d1.axis.y.forceVisible)
            /\ isWithinBounds(d1.axis.y.track.rect)
        d2 == IF isWithinTrackXBounds THEN pointerDownOnAxis(d1, e, "x") ELSE d1
        d3 == IF isWithinTrackYBounds THEN pointerDownOnAxis(d2, e, "y") ELSE d2
    IN IF (isWithinTrackXBounds \/ isWithinTrackYBounds) /\ e.pointerType # "touch"
       THEN d3
       ELSE d1

PointerDown(e) ==
    /\ Idle
    /\ Listening("pointerdown")
    /\ LET d == onPointerEvent([axis |-> axis, isDragging |-> isDragging,
                                draggedAxis |-> draggedAxis, dom |-> dom,
                                removePreventClickId |-> removePreventClickId], e)
       IN /\ axis' = d.axis
          /\ isDragging' = d.isDragging
          /\ draggedAxis' = d.draggedAxis
          /\ dom' = d.dom
          /\ removePreventClickId' = d.removePreventClickId
    /\ UNCHANGED <<config, thrown, geom, scroll, elStyles, isRtl, isScrolling,
                   isMouseEntering, ticking, pointer, resizeObserverStarted,
                   rafQueue, frameQueue, timers, counters, scrollEventDue>>

\* dragPos taken from the pointer alone, the grip on the handle forgotten
dragPosForPointer(a, eventOffset) ==
    LET trackRect == axis[a].track.rect
        dragPos == eventOffset - RectOffset(trackRect, a)
    IN IF a = "x" /\ isRtl
       THEN RectSize(trackRect, a) - axis[a].scrollbar.size - dragPos
       ELSE dragPos

\* dragPos of drag(e) for a pointer at eventOffset along the dragged axis
dragPosFor(a, eventOffset) ==
    LET trackRect == axis[a].track.rect
        dragPos == eventOffset - RectOffset(trackRect, a) - axis[a].dragOffset
    IN IF a = "x" /\ isRtl
       THEN RectSize(trackRect, a) - axis[a].scrollbar.size - dragPos
       ELSE dragPos

\* the sign negated unless the browser scrolls to negative values
dragScrollSignUnless(a, scrollPos) ==
    IF a = "x" /\ isRtl
    THEN (IF getRtlHelpers.isScrollingToNegative THEN scrollPos ELSE RatNeg(scrollPos))
    ELSE scrollPos

\* the sign drag(e) gives the scroll position it computed (lines 844-848)
dragScrollSign(a, scrollPos) ==
    IF a = "x" /\ isRtl
    THEN (IF getRtlHelpers.isScrollingToNegative THEN RatNeg(scrollPos) ELSE scrollPos)
    ELSE scrollPos

\* scrollPos of drag(e), as it is written to scrollLeft / scrollTop
dragScrollPos(a, eventOffset) ==
    LET trackSize == RectSize(axis[a].track.rect, a)
        contentSize == geom[a].scrollSize
        hostSize == IF elStyles THEN geom[a].hostSize ELSE 0
        dragPos == dragPosFor(a, eventOffset)
    IN dragScrollSign(a, Rat(dragPos * (contentSize - hostSize),
                             trackSize - axis[a].scrollbar.size))

\* where the pointer can be along the dragged axis
DragStops(a) ==
    LET o == geom[a].trackOrigin
        t == geom[a].trackSize
    IN IF t <= MaxScroll THEN (o - 1)..(o + t + 1)
       ELSE {o - 1, o, o + (t \div 2), o + t, o + t + 1}

\* a mousemove on the document while the drag listeners are installed: drag(e)
DragMove(eventOffset) ==
    /\ Idle
    /\ dom.dragListeners
    /\ scrollBurst < MaxBurst
    /\ IF draggedAxis = "none" \/ ~els.contentWrapperEl
       THEN UNCHANGED <<scroll, scrollEventDue>>
       ELSE /\ scroll' = [scroll EXCEPT ![draggedAxis] =
                            ClampScroll(draggedAxis,
                                        dragScrollPos(draggedAxis, eventOffset))]
            /\ scrollEventDue' = (scrollEventDue \/ scroll' # scroll)
    /\ UNCHANGED <<config, thrown, geom, axis, elStyles, isRtl, dom, isScrolling,
                   isMouseEntering, dragging, ticking, pointer,
                   resizeObserverStarted, rafQueue, frameQueue, timers, counters>>

\* an onEndDrag that leaves the stop-scrolling timer alone
onEndDragWithoutStop ==
    /\ Idle
    /\ dom.dragListeners
    /\ isDragging' = FALSE
    /\ dom' = [dom EXCEPT !.draggingClass = FALSE, !.dragListeners = FALSE]
    /\ removePreventClickId' = TRUE
    /\ UNCHANGED <<config, thrown, geom, scroll, axis, elStyles, isRtl, isScrolling,
                   isMouseEntering, draggedAxis, ticking, pointer,
                   resizeObserverStarted, rafQueue, frameQueue, timers, counters,
                   scrollEventDue>>

\* a mouseup on the document while the drag listeners are installed
onEndDrag ==
    /\ Idle
    /\ dom.dragListeners
    /\ isDragging' = FALSE
    /\ dom' = [dom EXCEPT !.draggingClass = FALSE, !.dragListeners = FALSE]
    /\ timers' = [timers EXCEPT !.stop = debounced(timers.stop)]
    /\ removePreventClickId' = TRUE
    /\ UNCHANGED <<config, thrown, geom, scroll, axis, elStyles, isRtl, isScrolling,
                   isMouseEntering, draggedAxis, ticking, pointer,
                   resizeObserverStarted, rafQueue, frameQueue, counters,
                   scrollEventDue>>

\* the timeout of onEndDrag fires: the click suppressor is removed
RemovePreventClick ==
    /\ Idle
    /\ removePreventClickId
    /\ dom' = [dom EXCEPT !.clickSuppressor = FALSE]
    /\ removePreventClickId' = FALSE
    /\ UNCHANGED <<config, thrown, geom, scroll, axis, elStyles, isRtl, isScrolling,
                   isMouseEntering, isDragging, draggedAxis, ticking, pointer,
                   resizeObserverStarted, rafQueue, frameQueue, timers, counters,
                   scrollEventDue>>

\* preventClick(e), as the capturing click / dblclick listener of the document
preventClick(d) == [d EXCEPT !.lastClick = "prevented"]

\* a click or double click somewhere in the document: the capturing
\* listener, while installed, prevents it and stops its propagation
Click ==
    /\ Idle
    /\ dom' = IF dom.clickSuppressor THEN preventClick(dom)
              ELSE [dom EXCEPT !.lastClick = "delivered"]
    /\ UNCHANGED <<config, thrown, geom, scroll, axis, elStyles, isRtl, isScrolling,
                   isMouseEntering, dragging, ticking, pointer,
                   resizeObserverStarted, rafQueue, frameQueue, timers, counters,
                   scrollEventDue>>

----------------------------------------------------------------------------
(* The native scrollbar width *)

\* the width a browser with classic scrollbars measures
NativeWidth == 2

\* what a call of the scrollbarWidth() helper may do: throw, or return the
\* measured width, 0 where scrollbars overlay the content
Measurements ==
    {[throws |-> TRUE, width |-> 0],
     [throws |-> FALSE, width |-> 0],
     [throws |-> FALSE, width |-> NativeWidth]}

\* the browser at the time of a getScrollbarWidth() call: the computed-style
\* lookup throws, the browser styles scrollbars by CSS, and what the first
\* and a second call of scrollbarWidth() do
ProbeEnvs ==
    [styleThrows : BOOLEAN, cssStyling : BOOLEAN,
     measure : Measurements, again : Measurements]

\* something inside the try block of getScrollbarWidth throws
ProbeThrows(env) ==
    env.styleThrows \/ (~env.cssStyling /\ env.measure.throws)

\* getScrollbarWidth(): what it returns, or that it throws
getScrollbarWidth(env) ==
    IF env.styleThrows THEN env.measure
    ELSE IF env.cssStyling THEN [throws |-> FALSE, width |-> 0]
    ELSE IF env.measure.throws THEN env.again
    ELSE env.measure

\* _onWindowResize, on the browser env
_onWindowResize(env) ==
    LET w == getScrollbarWidth(env)
    IN IF w.throws
       THEN /\ thrown' = [by |-> "onWindowResize", error |-> "Error"]
            /\ UNCHANGED scrollbarWidth
       ELSE /\ scrollbarWidth' = w.width
            /\ UNCHANGED thrown

\* a resize event of the window, through debounce(_onWindowResize, 64,
\* {leading: true}): run at once when no wait is on, else kept for its end
WindowResize(env) ==
    /\ Idle
    /\ Listening("resize")
    /\ IF ~timers.resize.waiting
       THEN /\ _onWindowResize(env)
            /\ timers' = [timers EXCEPT !.resize = [waiting |-> TRUE, again |-> FALSE]]
       ELSE /\ timers' = [timers EXCEPT !.resize.again = TRUE]
            /\ UNCHANGED <<scrollbarWidth, thrown>>
    /\ UNCHANGED <<options, els, css, rtlHelpers, geom, scroll, axis, elStyles,
                   isRtl, dom, isScrolling, isMouseEntering, dragging, ticking,
                   pointer, resizeObserverStarted, rafQueue, frameQueue, counters,
                   scrollEventDue>>

\* the wait ends: the kept call, if any, runs
WindowResizeTrailing(env) ==
    /\ Idle
    /\ timers.resize.waiting
    /\ timers' = [timers EXCEPT !.resize = [waiting |-> FALSE, again |-> FALSE]]
    /\ IF timers.resize.again
       THEN _onWindowResize(env)
       ELSE UNCHANGED <<scrollbarWidth, thrown>>
    /\ UNCHANGED <<options, els, css, rtlHelpers, geom, scroll, axis, elStyles,
                   isRtl, dom, isScrolling, isMouseEntering, dragging, ticking,
                   pointer, resizeObserverStarted, rafQueue, frameQueue, counters,
                   scrollEventDue>>

\* new SimpleBarCore(element, c.options) on a page described by c, in the
\* browser env: init() stops where getScrollbarWidth() throws (line 291),
\* after initDOM and the RTL probe
NewProbing(c, env) ==
    LET w == getScrollbarWidth(env)
    IN IF w.throws
       THEN Unconstructed(c, c.els, c.rtlHelpers, "Error")
       ELSE Constructed([c EXCEPT !.scrollbarWidth = w.width])

----------------------------------------------------------------------------
(* The RTL profile *)

\* the document at the time of a getRtlHelpers() call: whether the dummy
\* markup yields its child, and the profile a probe would measure
RtlEnvs == [dummyChild : BOOLEAN, profile : RtlProfiles]

\* getRtlHelpers() that probes on every call
getRtlHelpersUncached(cache, env) ==
    IF ~env.dummyChild
    THEN [result |-> NotProbed, cache |-> cache, probed |-> FALSE]
    ELSE [result |-> env.profile, cache |-> env.profile, probed |-> TRUE]

\* SimpleBarCore.getRtlHelpers() with the static cache given: what it
\* returns, the cache it leaves, and whether it put the dummy into the body
getRtlHelpersCall(cache, env) ==
    IF cache # NotProbed
    THEN [result |-> cache, cache |-> cache, probed |-> FALSE]
    ELSE IF ~env.dummyChild
    THEN [result |-> NotProbed, cache |-> cache, probed |-> FALSE]
    ELSE [result |-> env.profile, cache |-> env.profile, probed |-> TRUE]

\* some instance calls getRtlHelpers(): init(), positionScrollbar() or drag()
GetRtlHelpers(env) ==
    /\ Idle
    /\ rtlHelpers' = getRtlHelpersCall(rtlHelpers, env).cache
    /\ UNCHANGED <<options, els, css, scrollbarWidth, thrown, geom, scroll, axis,
                   elStyles, isRtl, dom, isScrolling, isMouseEntering, dragging,
                   ticking, pointer, resizeObserverStarted, rafQueue, frameQueue,
                   timers, counters, scrollEventDue>>

----------------------------------------------------------------------------
(* Teardown *)

\* removeListeners() that registers the window listener when none is registered
removeListenersToggling(d) ==
    [dom |-> [d.dom EXCEPT !.listeners = IF @ = {} THEN {"resize"} ELSE {}],
     timers |-> [stop |-> NoTimer, enter |-> NoTimer,
                 move |-> [waiting |-> FALSE, args |-> <<>>],
                 resize |-> [waiting |-> FALSE, again |-> FALSE]]]

\* removeListeners(), on d = [dom, timers]: the listeners of initListeners
\* are removed, the two observers disconnected, and the throttled and the
\* three debounced functions cancelled.  The listeners onDragStart put on
\* the document, the timeout of onEndDrag and the animation-frame callbacks
\* already requested are not touched.
removeListeners(d) ==
    [dom |-> [d.dom EXCEPT !.listeners = {}],
     timers |-> [stop |-> NoTimer, enter |-> NoTimer,
                 move |-> [waiting |-> FALSE, args |-> <<>>],
                 resize |-> [waiting |-> FALSE, again |-> FALSE]]]

unMount ==
    /\ Idle
    /\ Instantiated
    /\ LET r == removeListeners([dom |-> dom, timers |-> timers])
       IN /\ dom' = r.dom
          /\ timers' = r.timers
    /\ thrown' = NoError
    /\ UNCHANGED <<config, geom, scroll, axis, elStyles, isRtl, isScrolling,
                   isMouseEntering, dragging, ticking, pointer,
                   resizeObserverStarted, rafQueue, frameQueue, counters,
                   scrollEventDue>>

\* a scroll event of the scrolling element that no listener of the instance hears
ScrollUnheard ==
    /\ Idle
    /\ scrollEventDue
    /\ ~Listening("scroll")
    /\ scrollEventDue' = FALSE
    /\ UNCHANGED <<config, thrown, geom, scroll, axis, elStyles, isRtl, dom,
                   isScrolling, isMouseEntering, dragging, ticking, pointer,
                   resizeObserverStarted, rafQueue, frameQueue, timers, counters>>

----------------------------------------------------------------------------
(* Specifications *)

PointerTypes == {"mouse", "touch"}

PointerEvents == {[x |-> p.x, y |-> p.y, pointerType |-> t] :
                    p \in PointerPoints, t \in PointerTypes}

Option(autoHide, forceVisible, minSize, maxSize) ==
    [autoHide |-> autoHide, forceVisible |-> forceVisible,
     scrollbarMinSize |-> minSize, scrollbarMaxSize |-> maxSize]

Css(overflowX, overflowY, direction) ==
    [overflow |-> [x |-> overflowX, y |-> overflowY], direction |-> direction]

Config(o, e, c, g, r, w) ==
    [options |-> o, els |-> e, css |-> c, geom |-> g, rtlHelpers |-> r,
     scrollbarWidth |-> w]

\* the profile of a browser whose RTL scrollLeft runs from 0 to negative values
StandardRtl == [isScrollOriginAtZero |-> TRUE, isScrollingToNegative |-> TRUE]

\* a small page: x overflows by two pixels, y overflows or fits
CoreGeometries ==
    {Geometry(AxisLayout(8, 6, 6, 0), AxisLayout(c, 6, 6, 0)) : c \in {4, 8}}

CoreConfigs ==
    {Config(Option(TRUE, "false", 2, 0), AllEls, Css("visible", "visible", "ltr"),
            g, StandardRtl, 0) : g \in CoreGeometries}

\* recalculation, scrolling and the animation frames
Init == \E c \in CoreConfigs : Constructed(c)

Next ==
    \/ Recalculate
    \/ ResizeObserved
    \/ MutationObserved
    \/ \E g \in CoreGeometries : Relayout(g)
    \/ \E a \in Axes : \E s \in ScrollStops(a) : UserScroll(a, s)
    \/ onScroll
    \/ BeginFrame
    \/ scrollX
    \/ scrollY
    \/ FrameRecalculate
    \/ FrameResizeObserverStarted

Spec == Init /\ [][Next]_vars

----------------------------------------------------------------------------
(* Geometry: many layouts, options, directions and RTL profiles, scrolled *)

\* content 1000, viewport 200, track 196
ExampleLayout == AxisLayout(1000, 200, 196, 0)

\* a short overflowing axis, scrolled pixel by pixel
SmallLayout == AxisLayout(8, 4, 4, 0)

\* an axis whose content fits
FittingLayout == AxisLayout(4, 4, 4, 0)

\* an overflowing axis with a track of 3
TightLayout == AxisLayout(10, 5, 3, 0)

LtrCss == Css("visible", "visible", "ltr")

RtlCss == Css("visible", "visible", "rtl")

NoHeightAutoObserver == [AllEls EXCEPT !.heightAutoObserverEl = FALSE]

GeometryConfigs ==
    {Config(Option(TRUE, "false", defaultScrollbarMinSize, 0), AllEls, c,
            Geometry(ExampleLayout, ExampleLayout), r, 0) :
        c \in {LtrCss, RtlCss}, r \in RtlProfiles}
    \cup
    {Config(Option(TRUE, "false", 1, 0), AllEls, c, Geometry(SmallLayout, FittingLayout), r, 0) :
        c \in {LtrCss, RtlCss}, r \in RtlProfiles}
    \cup
    {Config(Option(FALSE, fv, m, x), AllEls, LtrCss, Geometry(FittingLayout, l), StandardRtl, w) :
        fv \in {"false", "y"}, m \in {1, 4}, x \in {0, 3}, l \in {SmallLayout, TightLayout},
        w \in {0, 2}}
    \cup
    {Config(Option(TRUE, "false", 4, 0), AllEls, LtrCss, Geometry(TightLayout, FittingLayout),
            StandardRtl, 0)}
    \cup
    {Config(Option(TRUE, "false", 1, 0), e, Css(ox, "visible", "ltr"),
            Geometry(SmallLayout, FittingLayout), StandardRtl, 0) :
        e \in {AllEls, NoHeightAutoObserver}, ox \in {"hidden", "scroll"}}

InitGeometry == \E c \in GeometryConfigs : Constructed(c)

NextGeometry ==
    \/ Recalculate
    \/ \E a \in Axes : \E s \in ScrollStops(a) : UserScroll(a, s)
    \/ onScroll
    \/ BeginFrame
    \/ scrollX
    \/ scrollY
    \/ FrameResizeObserverStarted

SpecGeometry == InitGeometry /\ [][NextGeometry]_vars

----------------------------------------------------------------------------
(* Dragging: pointer moves, pointer-downs and drags, in LTR and in RTL *)

\* content 7, viewport 4, track 4: a handle of 2 that travels 2 over a
\* scroll range of 3
DragLayout == AxisLayout(7, 4, 4, 0)

\* the profile of a browser whose RTL scrollLeft runs from the range down to 0
PositiveRtl == [isScrollOriginAtZero |-> FALSE, isScrollingToNegative |-> FALSE]

DragConfigs ==
    {Config(Option(TRUE, "false", 1, 0), AllEls, LtrCss, g, StandardRtl, 0) :
        g \in {Geometry(DragLayout, FittingLayout), Geometry(FittingLayout, DragLayout)}}
    \cup
    {Config(Option(TRUE, "false", 1, 0), AllEls, RtlCss, Geometry(DragLayout, FittingLayout),
            r, 0) : r \in {StandardRtl, PositiveRtl}}
    \cup
    {Config(Option(TRUE, "x", 1, 0), AllEls, LtrCss, Geometry(FittingLayout, DragLayout),
            StandardRtl, 0)}

InitDrag == \E c \in DragConfigs : Constructed(c)

\* the pointer goes for a handle
HandlePoints == {HandlePoint(a) : a \in Axes}

HandleEvents == {[x |-> p.x, y |-> p.y, pointerType |-> t] :
                   p \in HandlePoints, t \in PointerTypes}

NextDrag ==
    \/ Recalculate
    \/ \E p \in HandlePoints : MouseMove(p)
    \/ MouseMoveTrailing
    \/ \E e \in HandleEvents : PointerDown(e)
    \/ \E a \in Axes : \E o \in DragStops(a) : draggedAxis = a /\ DragMove(o)
    \/ onEndDrag
    \/ RemovePreventClick
    \/ onScroll
    \/ BeginFrame
    \/ scrollX
    \/ scrollY
    \/ FrameResizeObserverStarted

SpecDrag == InitDrag /\ [][NextDrag]_vars

----------------------------------------------------------------------------
(* Scrolling by wheel and by drag, the scroll events coalesced into frames *)

ScrollConfigs ==
    {Config(Option(TRUE, "false", 1, 0), AllEls, c, Geometry(DragLayout, FittingLayout),
            StandardRtl, 0) : c \in {LtrCss, RtlCss}}
    \cup
    {Config(Option(TRUE, "false", 1, 0), AllEls, LtrCss, Geometry(FittingLayout, DragLayout),
            StandardRtl, 0)}

InitScroll == \E c \in ScrollConfigs : Constructed(c)

NextScroll ==
    \/ \E a \in Axes : \E s \in ScrollStops(a) : UserScroll(a, s)
    \/ \E p \in HandlePoints : MouseMove(p)
    \/ MouseMoveTrailing
    \/ \E p \in HandlePoints : PointerDown([x |-> p.x, y |-> p.y, pointerType |-> "mouse"])
    \/ \E a \in Axes : \E o \in DragStops(a) : draggedAxis = a /\ DragMove(o)
    \/ onEndDrag
    \/ RemovePreventClick
    \/ onScroll
    \/ BeginFrame
    \/ scrollX
    \/ scrollY
    \/ FrameResizeObserverStarted

SpecScroll == InitScroll /\ [][NextScroll]_vars

----------------------------------------------------------------------------
(* Overflow: content that fits the wrapper but not what a native vertical
   scrollbar leaves of it *)

\* content 7 wide in a content element 4 wide, the wrapper 8 wide
NarrowLayout == [AxisLayout(7, 8, 8, 0) EXCEPT !.offsetSize = 4]

OverflowConfigs ==
    {Config(Option(TRUE, "false", 1, 0), AllEls, Css("visible", oy, "ltr"),
            Geometry(NarrowLayout, ly), StandardRtl, w) :
        oy \in {"visible", "hidden"}, ly \in {FittingLayout, SmallLayout}, w \in {0, 2}}

InitOverflow == \E c \in OverflowConfigs : Constructed(c)

SpecOverflow == InitOverflow /\ [][NextGeometry]_vars

----------------------------------------------------------------------------
(* Stray pointers: only y overflows, and the pointer goes anywhere *)

StrayConfigs ==
    {Config(Option(TRUE, "false", 1, 0), AllEls, LtrCss, Geometry(FittingLayout, DragLayout),
            StandardRtl, 0)}

InitStray == \E c \in StrayConfigs : Constructed(c)

NextStray ==
    \/ \E p \in PointerPoints : MouseMove(p)
    \/ MouseMoveTrailing
    \/ onMouseLeave
    \/ \E e \in PointerEvents : PointerDown(e)
    \/ onEndDrag
    \/ RemovePreventClick

SpecStray == InitStray /\ [][NextStray]_vars

----------------------------------------------------------------------------
(* RTL profile: the cache is empty or filled, and the probe would measure
   any profile *)

RtlCacheConfigs ==
    {Config(Option(TRUE, "false", 1, 0), AllEls, LtrCss, Geometry(SmallLayout, FittingLayout),
            r, 0) : r \in {NotProbed, StandardRtl, PositiveRtl}}
    \cup
    {Config(Option(TRUE, "false", 1, 0), AllEls, RtlCss, Geometry(SmallLayout, FittingLayout),
            r, 0) : r \in {StandardRtl, PositiveRtl}}

InitRtlCache == \E c \in RtlCacheConfigs : Constructed(c)

NextRtlCache ==
    \/ \E env \in RtlEnvs : GetRtlHelpers(env)
    \/ Recalculate
    \/ \E s \in ScrollStops("x") : UserScroll("x", s)
    \/ onScroll
    \/ BeginFrame
    \/ scrollX
    \/ scrollY
    \/ FrameResizeObserverStarted

SpecRtlCache == InitRtlCache /\ [][NextRtlCache]_vars

----------------------------------------------------------------------------
(* Pointer: both axes overflow, so that the handles meet in the corner *)

PointerConfigs ==
    {Config(Option(TRUE, "false", 1, 0), AllEls, LtrCss, Geometry(DragLayout, DragLayout),
            StandardRtl, 0)}

InitPointer == \E c \in PointerConfigs : Constructed(c)

NextPointer ==
    \/ \E p \in HandlePoints : MouseMove(p)
    \/ MouseMoveTrailing
    \/ \E e \in HandleEvents : PointerDown(e)
    \/ \E a \in Axes : \E o \in DragStops(a) : draggedAxis = a /\ DragMove(o)
    \/ onEndDrag
    \/ RemovePreventClick
    \/ onScroll
    \/ BeginFrame
    \/ scrollX
    \/ scrollY
    \/ FrameResizeObserverStarted

SpecPointer == InitPointer /\ [][NextPointer]_vars

----------------------------------------------------------------------------
(* Clicks: one vertical scrollbar, drags and the clicks around them *)

ClickConfigs ==
    {Config(Option(TRUE, "false", 1, 0), AllEls, LtrCss, Geometry(FittingLayout, DragLayout),
            StandardRtl, 0)}

InitClick == \E c \in ClickConfigs : Constructed(c)

NextClick ==
    \/ \E p \in HandlePoints : MouseMove(p)
    \/ MouseMoveTrailing
    \/ \E e \in HandleEvents : PointerDown(e)
    \/ \E o \in DragStops("y") : draggedAxis = "y" /\ DragMove(o)
    \/ onEndDrag
    \/ RemovePreventClick
    \/ Click
    \/ onScroll
    \/ BeginFrame
    \/ scrollX
    \/ scrollY
    \/ FrameResizeObserverStarted

SpecClick == InitClick /\ [][NextClick]_vars

----------------------------------------------------------------------------
(* Visibility: scrolls, mouse enters and leaves, drags, and the two timers *)

\* content 5, viewport 4, track 4: one pixel to scroll
ShortLayout == AxisLayout(5, 4, 4, 0)

VisibilityConfigs ==
    {Config(Option(h, "false", 1, 0), AllEls, LtrCss, Geometry(FittingLayout, ShortLayout),
            StandardRtl, 0) : h \in BOOLEAN}

InitVisibility == \E c \in VisibilityConfigs : Constructed(c)

NextVisibility ==
    \/ \E a \in Axes : \E s \in ScrollStops(a) : UserScroll(a, s)
    \/ onScroll
    \/ BeginFrame
    \/ scrollX
    \/ scrollY
    \/ FrameResizeObserverStarted
    \/ Tick
    \/ _onStopScrolling
    \/ _onMouseEntered
    \/ onMouseEnter
    \/ onMouseLeave
    \/ MouseMove(HandlePoint("y"))
    \/ MouseMoveTrailing
    \/ PointerDown([x |-> HandlePoint("y").x, y |-> HandlePoint("y").y,
                    pointerType |-> "mouse"])
    \/ onEndDrag
    \/ RemovePreventClick

SpecVisibility == InitVisibility /\ [][NextVisibility]_vars

----------------------------------------------------------------------------
(* Hiding: autoHide is on; the timers fire, the frames run and a pressed
   button is released, while the user may stop doing anything *)

HideConfigs ==
    {Config(Option(TRUE, "false", 1, 0), AllEls, LtrCss, Geometry(FittingLayout, ShortLayout),
            StandardRtl, 0)}

InitHide == \E c \in HideConfigs : Constructed(c)

\* what the user does: scroll, enter and leave with the mouse, move it onto
\* the handle, press the button there
UserEvent ==
    \/ \E s \in ScrollStops("y") : UserScroll("y", s)
    \/ onMouseEnter
    \/ onMouseLeave
    \/ MouseMove(HandlePoint("y"))
    \/ PointerDown([x |-> HandlePoint("y").x, y |-> HandlePoint("y").y,
                    pointerType |-> "mouse"])

\* what the browser does on its own: deliver the scroll event, run the
\* frames, let the time pass, fire the timers, and the release of the button
BrowserStep ==
    \/ onScroll
    \/ BeginFrame
    \/ scrollX
    \/ scrollY
    \/ FrameResizeObserverStarted
    \/ Tick
    \/ _onStopScrolling
    \/ _onMouseEntered
    \/ MouseMoveTrailing
    \/ onEndDrag
    \/ RemovePreventClick

NextHide == UserEvent \/ BrowserStep

SpecHide == InitHide /\ [][NextHide]_vars /\ WF_vars(BrowserStep)

----------------------------------------------------------------------------
(* Teardown: unMount() in the middle of scrolls, drags, frames and timers *)

TeardownConfigs ==
    {Config(Option(TRUE, "false", 1, 0), AllEls, LtrCss, Geometry(FittingLayout, ShortLayout),
            StandardRtl, 0)}

InitTeardown == \E c \in TeardownConfigs : Constructed(c)

NextTeardown ==
    \/ unMount
    \/ \E s \in ScrollStops("y") : UserScroll("y", s)
    \/ onScroll
    \/ ScrollUnheard
    \/ BeginFrame
    \/ scrollX
    \/ scrollY
    \/ FrameResizeObserverStarted
    \/ Tick
    \/ _onStopScrolling
    \/ MouseMove(HandlePoint("y"))
    \/ MouseMoveTrailing
    \/ PointerDown([x |-> HandlePoint("y").x, y |-> HandlePoint("y").y,
                    pointerType |-> "mouse"])
    \/ onEndDrag
    \/ RemovePreventClick

SpecTeardown == InitTeardown /\ [][NextTeardown]_vars

----------------------------------------------------------------------------
(* Missing elements: the horizontal track, or only its handle, is not in the
   DOM, while both axes overflow *)

MissingEls ==
    {[AllEls EXCEPT !.track.x = FALSE, !.scrollbar.x = FALSE],
     [AllEls EXCEPT !.scrollbar.x = FALSE]}

MissingConfigs ==
    {Config(Option(TRUE, "false", 1, 0), e, LtrCss, Geometry(DragLayout, DragLayout),
            StandardRtl, 0) : e \in MissingEls}

InitMissing == \E c \in MissingConfigs : Constructed(c)

NextMissing ==
    \/ Recalculate
    \/ \E a \in Axes : \E s \in ScrollStops(a) : UserScroll(a, s)
    \/ onScroll
    \/ BeginFrame
    \/ scrollX
    \/ scrollY
    \/ FrameResizeObserverStarted
    \/ onMouseEnter
    \/ onMouseLeave
    \/ \E p \in HandlePoints : MouseMove(p)
    \/ MouseMoveTrailing
    \/ \E e \in HandleEvents : PointerDown(e)

SpecMissing == InitMissing /\ [][NextMissing]_vars

----------------------------------------------------------------------------
(* Resize: the window is resized or zoomed, in browsers of every kind *)

InitResize == \E c \in TeardownConfigs : \E env \in ProbeEnvs : NewProbing(c, env)

NextResize ==
    \/ \E env \in ProbeEnvs : WindowResize(env)
    \/ \E env \in ProbeEnvs : WindowResizeTrailing(env)
    \/ Instantiated /\ Recalculate
    \/ \E s \in ScrollStops("y") : UserScroll("y", s)
    \/ onScroll
    \/ BeginFrame
    \/ scrollX
    \/ scrollY
    \/ FrameResizeObserverStarted
    \/ unMount

SpecResize == InitResize /\ [][NextResize]_vars

----------------------------------------------------------------------------
(* Construction: on an element and on what is none *)

InitConstruct == \E t \in Targets : \E c \in TeardownConfigs : New(t, c)

SpecConstruct == InitConstruct /\ [][NextTeardown]_vars

----------------------------------------------------------------------------
(* Claims *)

\* how many callbacks named tag the sequence q holds
Count(tag, q) == Cardinality({i \in DOMAIN q : q[i] = tag})

\* the frame callbacks requested or still to run in the frame being run
PendingFrames(tag) == Count(tag, rafQueue) + Count(tag, frameQueue)

\* what recalculate() decides for an axis: overflow, handle size and offset,
\* track and handle visibility
Recalculable(a) ==
    <<axis[a].isOverflowing, axis[a].scrollbar.size, axis[a].scrollbar.isVisible,
      dom.scrollbarSize[a], dom.scrollbarOffset[a], dom.trackVisibility[a],
      dom.scrollbarDisplay[a], dom.visibleClass[a]>>

\* C3: a recalculate() that follows another in the same frame, the geometry,
\* the scroll offsets and the options unchanged in between, leaves overflow,
\* handle size, handle offset and track/handle visibility of both axes as the
\* first left them.
RecalculateIdempotent ==
    [][(frameRecalcs >= 1 /\ frameRecalcs' = frameRecalcs + 1)
         => \A a \in Axes : Recalculable(a)' = Recalculable(a)]_vars

\* two recalculations ran in one frame on a scrolled, overflowing x axis
RecalculatedTwice ==
    /\ frameRecalcs >= 2
    /\ axis.x.isOverflowing
    /\ scroll.x # RatInt(0)
    /\ dom.scrollbarOffset.x # <<0>>

\* C8: however many scroll events arrive between two frames, each axis has
\* at most one frame callback requested, its ticking flag says whether one
\* is, and the callback repositions its handle at most once in the frame.
OneRepositionPerFrame ==
    /\ PendingFrames("scrollX") <= 1
    /\ PendingFrames("scrollY") <= 1
    /\ scrollXTicking <=> (PendingFrames("scrollX") = 1)
    /\ scrollYTicking <=> (PendingFrames("scrollY") = 1)
    /\ \A a \in Axes : framePositions[a] <= 1

\* two scroll events came since the last frame and one callback per axis waits
ScrollBurstCoalesced ==
    /\ scrollBurst >= 2
    /\ Count("scrollX", rafQueue) = 1
    /\ Count("scrollY", rafQueue) = 1

\* C9 (as claimed): however many resize or mutation notifications arrive
\* before a frame, the frame calls recalculate() at most once.
RecalculateOncePerFrame == frameRecalcs <= 1

----------------------------------------------------------------------------
(* Claims on the geometry *)

\* the handle of axis a was positioned from the scroll offset the axis has now
InSync(a) ==
    /\ Idle
    /\ ~scrollEventDue
    /\ ~(IF a = "x" THEN scrollXTicking ELSE scrollYTicking)
    /\ elStyles
    /\ axis[a].isOverflowing
    /\ els.scrollbar[a]

\* how far the handle of axis a can travel
Travel(a) == geom[a].trackSize - axis[a].scrollbar.size

\* ~~(Travel * s / (content - host)) for a scroll offset s
TruncatedOffset(a, s) ==
    TruncDiv(Travel(a) * s.n, s.d * (geom[a].scrollSize - geom[a].hostSize))

\* floor(Travel * s / (content - host)) for a scroll offset s
FlooredOffset(a, s) ==
    (Travel(a) * s.n) \div (s.d * (geom[a].scrollSize - geom[a].hostSize))

IsExample(a) ==
    /\ geom[a].scrollSize = 1000
    /\ geom[a].hostSize = 200
    /\ geom[a].trackSize = 196
    /\ options.scrollbarMinSize = 25
    /\ options.scrollbarMaxSize = 0

\* C1 (as claimed): after a recalculation the handle size of an overflowing
\* axis is at least scrollbarMinSize, at most a non-zero scrollbarMaxSize,
\* and never larger than the track of the axis.
ScrollbarSizeWithinTrack ==
    \A a \in Axes :
        (elStyles /\ axis[a].isOverflowing)
        => /\ axis[a].scrollbar.size >= options.scrollbarMinSize
           /\ options.scrollbarMaxSize # 0
                => axis[a].scrollbar.size <= options.scrollbarMaxSize
           /\ axis[a].scrollbar.size <= geom[a].trackSize

\* C2 (as claimed): in every state after construction an axis whose computed
\* CSS overflow is hidden has isOverflowing false.
HiddenNeverOverflowing ==
    \A a \in Axes : css.overflow[a] = "hidden" => ~axis[a].isOverflowing

\* C4 (as claimed): the offset written for a non-RTL overflowing axis is
\* floor((trackSize - scrollbarSize) * scrollOffset / (contentScrollSize -
\* hostSize)), on the x and on the y axis.
HandleOffsetIsFloor ==
    \A a \in Axes :
        (InSync(a) /\ ~isRtl)
        => dom.scrollbarOffset[a] = <<FlooredOffset(a, scroll[a])>>

\* C4 (amended): the offset written for a non-RTL overflowing axis is the
\* truncation toward zero of (trackSize - scrollbarSize) * scrollOffset /
\* (contentScrollSize - hostSize); the x axis writes it as it is, the y axis
\* writes 2 in place of 0.  Content 1000, viewport 200, track 196 and
\* scrollbarMinSize 25 give size 38, and scroll offset 400 gives offset 79.
HandleOffsetIsTruncation ==
    \A a \in Axes :
        (InSync(a) /\ ~isRtl)
        => LET t == TruncatedOffset(a, scroll[a])
           IN /\ dom.scrollbarOffset[a] = <<IF a = "y" /\ t = 0 THEN 2 ELSE t>>
              /\ IsExample(a) => axis[a].scrollbar.size = 38
              /\ (IsExample(a) /\ scroll[a] = RatInt(400))
                    => dom.scrollbarOffset[a] = <<79>>

\* the example layout scrolled to 400 on both axes, and positioned
ExampleScrolledTo400 ==
    \A a \in Axes :
        /\ InSync(a) /\ ~isRtl /\ IsExample(a)
        /\ scroll[a] = RatInt(400)
        /\ dom.scrollbarOffset[a] = <<79>>

\* C5: in RTL the x handle is written at Travel - h, h the truncated offset
\* of the scroll offset negated when isScrollOriginAtZero, then negated again
\* when not isScrollingToNegative; the y axis and the non-RTL x axis are
\* written as if there were no RTL profile.
RtlComposition ==
    /\ (InSync("x") /\ isRtl)
         => LET s == scroll.x
                o == rtlHelpers.isScrollOriginAtZero
                n == rtlHelpers.isScrollingToNegative
                h == IF o /\ n THEN TruncatedOffset("x", RatNeg(s))
                     ELSE IF o /\ ~n THEN TruncatedOffset("x", s)
                     ELSE IF ~o /\ n THEN TruncatedOffset("x", s)
                     ELSE TruncatedOffset("x", RatNeg(s))
            IN dom.scrollbarOffset.x = <<Travel("x") - h>>
    /\ (InSync("x") /\ ~isRtl)
         => dom.scrollbarOffset.x = <<TruncatedOffset("x", scroll.x)>>
    /\ InSync("y")
         => LET t == TruncatedOffset("y", scroll.y)
            IN dom.scrollbarOffset.y = <<IF t = 0 THEN 2 ELSE t>>

\* an RTL x axis scrolled off its start and positioned, on a browser whose
\* scroll origin is not at zero
RtlScrolledAndPositioned ==
    /\ InSync("x") /\ isRtl
    /\ ~rtlHelpers.isScrollOriginAtZero
    /\ scroll.x # RatInt(0)
    /\ dom.scrollbarOffset.x # <<Travel("x")>>

----------------------------------------------------------------------------
(* Claims on dragging *)

\* pointerPosition - trackRectOrigin - dragOffset for a pointer at o
RawDragPos(a, o) == o - RectOffset(axis[a].track.rect, a) - axis[a].dragOffset

\* the travel drag(e) divides by: the track measured at the pointer-down
\* less the handle size
DragTravel(a) == RectSize(axis[a].track.rect, a) - axis[a].scrollbar.size

\* drag(e) runs for a pointer at o on the dragged axis a
Drags(a, o) == draggedAxis = a /\ DragMove(o)

\* a non-RTL drag to dragPos d within the travel writes d / travel of the
\* scroll range, and the handle positioned from it is off d by at most
\* tolerance, but for the listed exception
RoundTrip(a, o, exceptYAtZero) ==
    LET d == RawDragPos(a, o)
    IN (Drags(a, o) /\ ~isRtl /\ DragTravel(a) > 0 /\ d \in 0..DragTravel(a))
       => /\ scroll'[a] = Rat(d * (geom[a].scrollSize - geom[a].hostSize), DragTravel(a))
          /\ LET w == writtenOffset(axis, isRtl, a)'
             IN \/ Abs(w - d) <= 1
                \/ exceptYAtZero /\ a = "y" /\ d = 0 /\ w = 2

\* C6 (as claimed): a non-RTL drag to fraction p of the travel writes p of
\* the scroll range, and repositioning from that offset puts the handle
\* within one pixel of dragPos.
DragRoundTripWithinOnePixel ==
    [][\A a \in Axes : \A o \in DragStops(a) : RoundTrip(a, o, FALSE)]_vars

\* C6 (amended): a non-RTL drag to fraction p of the travel writes p of the
\* scroll range, and repositioning from that offset puts the handle within
\* one pixel of dragPos, except on the y axis at dragPos 0, where the handle
\* is written at 2.
DragRoundTrip ==
    [][\A a \in Axes : \A o \in DragStops(a) : RoundTrip(a, o, TRUE)]_vars

\* a non-RTL drag has scrolled the y axis to a fraction of a pixel
DraggedToFraction ==
    /\ isDragging /\ draggedAxis = "y" /\ ~isRtl
    /\ scroll.y.d # 1
    /\ scrollEventDue

\* an RTL x drag to raw dragPos d writes sign * (mirrored d) / travel of
\* the scroll range; negateWhenNegative says when the sign is minus
RtlDrag(o, negateWhenNegative) ==
    LET d == RawDragPos("x", o)
        m == DragTravel("x") - d
        pos == Rat(m * (geom.x.scrollSize - geom.x.hostSize), DragTravel("x"))
        negate == (rtlHelpers.isScrollingToNegative = negateWhenNegative)
    IN (Drags("x", o) /\ isRtl /\ DragTravel("x") > 0 /\ m \in 0..DragTravel("x"))
       => scroll'.x = IF negate THEN RatNeg(pos) ELSE pos

\* C7 (as claimed): an RTL x drag mirrors dragPos to trackSize - handleSize -
\* dragPos and negates the scroll position unless isScrollingToNegative.
RtlDragNegatesUnlessNegative ==
    [][\A o \in DragStops("x") : RtlDrag(o, FALSE)]_vars

\* C7 (amended): an RTL x drag mirrors dragPos to trackSize - handleSize -
\* dragPos and negates the scroll position when isScrollingToNegative is
\* true; when it is false the scroll offset written is the un-negated value.
RtlDragNegatesWhenNegative ==
    [][\A o \in DragStops("x") : RtlDrag(o, TRUE)]_vars

\* an RTL x drag has scrolled to a negative offset
RtlDraggedNegative ==
    /\ isDragging /\ draggedAxis = "x" /\ isRtl
    /\ rtlHelpers.isScrollingToNegative
    /\ scroll.x.n < 0
    /\ scrollEventDue

----------------------------------------------------------------------------
(* Claims on visibility *)

\* the handle of axis a goes from visible to hidden in this step
Hides(a) == axis[a].scrollbar.isVisible /\ ~axis'[a].scrollbar.isVisible

\* the debounced function of timer t was called less than stopScrollDelay ago
Recent(t) == t.pending /\ t.age < stopScrollDelay

\* C10 (as claimed): with autoHide a visible handle becomes hidden only when
\* stopScrollDelay has passed since the most recent mouse-enter and since the
\* most recent scroll event, and no drag is active.  (The stop timer is also
\* restarted by the end of a drag, so it tells the time since the last
\* scroll event as long as nothing was dragged.)
HidesOnlyWhenAllIdle ==
    [][\A a \in Axes :
         Hides(a) => /\ options.autoHide
                     /\ ~isDragging
                     /\ ~Recent(timers.enter)
                     /\ draggedAxis = "none" => ~Recent(timers.stop)]_vars

\* C10 (amended): with autoHide a visible handle becomes hidden only when
\* one of the two debounce timers runs out, the one restarted by every
\* scroll event and drag end or the one restarted by every mouse-enter,
\* stopScrollDelay after its last restart, and no drag is active; the other
\* timer may have been restarted less than the delay ago.
HidesOnlyOnTimerExpiry ==
    [][\A a \in Axes :
         Hides(a) => /\ options.autoHide
                     /\ ~isDragging
                     /\ \/ due(timers.stop) /\ ~timers'.stop.pending
                        \/ due(timers.enter) /\ ~timers'.enter.pending]_vars

\* the y handle was shown by a mouse-enter less than the delay ago and has
\* been hidden since, the stop timer having run out
HiddenSoonAfterMouseEnter ==
    /\ options.autoHide
    /\ axis.y.isOverflowing /\ ~axis.y.scrollbar.isVisible
    /\ isMouseEntering /\ Recent(timers.enter)
    /\ ~timers.stop.pending /\ ~isScrolling
    /\ scroll.y # RatInt(0)

\* C11 (as claimed): with autoHide false an overflowing axis has its handle
\* visible in every state: the handle carries the visible marker and its
\* scrollbar.isVisible flag is true.
AlwaysVisibleWithoutAutoHide ==
    \A a \in Axes :
        (~options.autoHide /\ axis[a].isOverflowing)
        => dom.visibleClass[a] /\ axis[a].scrollbar.isVisible

\* C11 (amended): with autoHide false a handle carries the visible marker in
\* every state, and no timer expiry, mouse event or drag end takes the marker
\* away or resets scrollbar.isVisible; the flag itself is false after
\* construction and becomes true at the first scroll or mouse-enter.
NeverHiddenWithoutAutoHide ==
    /\ [](\A a \in Axes : (~options.autoHide /\ els.scrollbar[a]) => dom.visibleClass[a])
    /\ [][\A a \in Axes :
            (~options.autoHide /\ axis[a].scrollbar.isVisible)
            => axis'[a].scrollbar.isVisible]_vars

\* without autoHide the y axis was scrolled, its stop timer ran out after a
\* drag had ended, and the handle is still visible
VisibleAfterTimersRanOut ==
    /\ ~options.autoHide
    /\ axis.y.isOverflowing /\ axis.y.scrollbar.isVisible /\ dom.visibleClass.y
    /\ draggedAxis = "y" /\ ~isDragging
    /\ ~timers.stop.pending /\ ~timers.enter.pending /\ ~isScrolling

----------------------------------------------------------------------------
(* Claims on track visibility and the drag controller *)

\* C12: once recalculate() has run, the track of an axis that has its track
\* and handle elements is visible exactly when the axis overflows or is
\* forced visible, and hidden otherwise, whatever scrollbar.isVisible, the
\* scrolling, the mouse and the dragging are.
TrackVisibleIffOverflowOrForced ==
    \A a \in Axes :
        (elStyles /\ els.track[a] /\ els.scrollbar[a])
        => /\ dom.trackVisibility[a] \in {"visible", "hidden"}
           /\ dom.trackVisibility[a] = "visible"
                <=> (axis[a].isOverflowing \/ axis[a].forceVisible)

\* a forced x track is visible, its handle not displayed, while the y handle
\* is dragged and scrolling
ForcedTrackVisibleDuringDrag ==
    /\ axis.x.forceVisible /\ ~axis.x.isOverflowing
    /\ dom.trackVisibility.x = "visible" /\ dom.scrollbarDisplay.x = "none"
    /\ isDragging /\ draggedAxis = "y" /\ isScrolling
    /\ axis.y.scrollbar.isVisible /\ ~axis.x.scrollbar.isVisible

\* C13 (as claimed): while one axis is dragged no pointer-down changes the
\* dragged axis or its captured drag offset before the pointer-up, and a
\* pointer-down that starts a drag, even one within both handles, captures
\* the drag offset of the dragged axis only.
OneDragSession ==
    [][/\ (isDragging /\ isDragging')
          => /\ draggedAxis' = draggedAxis
             /\ axis'[draggedAxis].dragOffset = axis[draggedAxis].dragOffset
       /\ (~isDragging /\ isDragging')
          => axis'[Other(draggedAxis')].dragOffset
               = axis[Other(draggedAxis')].dragOffset]_vars

\* the point (x, y) lies within rect, borders included
PointWithin(x, y, rect) ==
    /\ x >= rect.left /\ x <= rect.left + rect.width
    /\ y >= rect.top /\ y <= rect.top + rect.height

\* C14 (as claimed): a pointer-down takes the drag controller from idle to
\* dragging only if the position of that pointer-down lies within the
\* handle's bounding rectangle and the pointer type is not touch.
DragStartsOnHandleOnly ==
    [][\A e \in HandleEvents :
         (~isDragging /\ PointerDown(e) /\ isDragging')
         => /\ e.pointerType # "touch"
            /\ PointWithin(e.x, e.y, ScrollbarRect(draggedAxis'))]_vars

\* C15: the capturing click / dblclick suppressor is installed exactly from
\* the start of a drag until the deferred timer of the pointer-up fires: a
\* click before that is prevented, a click after it (no drag begun since) is
\* delivered, and a drag begun while the timer is pending cancels the timer
\* and keeps the suppressor.
SuppressorInstalled == isDragging \/ removePreventClickId

ClickSuppressedUntilTimerFires ==
    /\ [](dom.clickSuppressor <=> SuppressorInstalled)
    /\ [][/\ Click => (dom'.lastClick = "prevented" <=> SuppressorInstalled)
          /\ Click => (dom'.lastClick = "delivered" <=> ~SuppressorInstalled)
          /\ (removePreventClickId /\ ~isDragging /\ isDragging')
                => (~removePreventClickId' /\ dom'.clickSuppressor)]_vars

\* a click got through after a drag on y ended and its timer fired
ClickDeliveredAfterDrag ==
    /\ dom.lastClick = "delivered"
    /\ draggedAxis = "y"
    /\ ~isDragging
    /\ ~removePreventClickId
    /\ ~dom.clickSuppressor
    /\ scroll.y # RatInt(0)

----------------------------------------------------------------------------
(* Claims on teardown and on failures *)

Unmounted == dom.listeners = {}

\* a callback of the instance that is still to run: a document listener of a
\* drag, an animation-frame callback, the timeout of onEndDrag, a debounce
\* or throttle timer
PendingCallbacks ==
    \/ dom.dragListeners
    \/ dom.clickSuppressor
    \/ rafQueue # <<>>
    \/ frameQueue # <<>>
    \/ removePreventClickId
    \/ timers.stop.pending
    \/ timers.enter.pending
    \/ timers.move.waiting
    \/ timers.resize.waiting

\* C16 (as claimed): once unMount() has returned, no listener or observer of
\* the instance is registered and no callback of the instance is pending,
\* whatever state unMount() was called in.
NothingLeftAfterUnMount == Unmounted => ~PendingCallbacks

\* C17: unMount() is idempotent: a second call changes neither the
\* registered listeners and observers nor the pending timers the first call
\* left, in every state of the instance, and raises no error.
UnMountIdempotent ==
    LET once == removeListeners([dom |-> dom, timers |-> timers])
    IN /\ removeListeners(once) = once
       /\ Unmounted => (once.dom = dom /\ thrown = NoError)

\* unMount() was called in the middle of a drag, with a scroll frame
\* requested: what it left is still there
UnmountedMidDrag ==
    /\ Unmounted
    /\ isDragging
    /\ dom.dragListeners
    /\ dom.clickSuppressor
    /\ rafQueue # <<>>
    /\ ~timers.stop.pending

\* this.el is a DOM-like element: an object with a nodeName
ElementLike(t) == t.type = "object" /\ ~t.isNull /\ t.nodeName

\* C18: constructing on a target that is no object or has no nodeName fails
\* with an error, and at that point nothing has been looked up in the DOM,
\* probed, recalculated, scheduled or registered.
FailsFastOnNonElement ==
    ~ElementLike(els.el) =>
        /\ thrown.by = "constructor"
        /\ thrown.error # ""
        /\ els = NoEls(els.el)
        /\ rtlHelpers = NotProbed
        /\ axis = defaultAxis
        /\ ~elStyles
        /\ dom = initDOM(options, NoEls(els.el))
        /\ dom.listeners = {}
        /\ ~PendingCallbacks

\* the constructor was given a string and threw
ThrewOnString ==
    /\ els.el.type = "string"
    /\ thrown = [by |-> "constructor", error |-> "Error"]
    /\ dom.listeners = {}

\* the track and the handle of axis a are both in the DOM
Present(a) == els.track[a] /\ els.scrollbar[a]

\* what the instance keeps and has written for axis a
AxisState(ax, dm, a) ==
    <<ax[a], dm.scrollbarOffset[a], dm.scrollbarSize[a], dm.trackVisibility[a],
      dm.scrollbarDisplay[a], dm.visibleClass[a]>>

\* a mouse pointer-down now, with the mouse where it is, would leave the
\* instance dragging axis a
PointerDownDrags(a) ==
    \A e \in HandleEvents :
        e.pointerType = "mouse" =>
            LET d == onPointerEvent([axis |-> axis, isDragging |-> isDragging,
                                     draggedAxis |-> draggedAxis, dom |-> dom,
                                     removePreventClickId |-> removePreventClickId], e)
            IN d.isDragging /\ d.draggedAxis = a

\* C19 (as claimed): while the track or the handle of an axis is absent,
\* that axis holds the state the constructor gave it and no step changes
\* it, and a mouse pointer-down with the mouse on the handle of the other,
\* overflowing axis starts a drag of that axis.
AbsentAxisInertOtherWorks ==
    /\ [](\A a \in Axes :
            (/\ ~Present(Other(a))
             /\ Present(a)
             /\ axis[a].isOverflowing
             /\ isWithinBounds(ScrollbarRect(a))) => PointerDownDrags(a))
    /\ [](\A a \in Axes : ~Present(a) =>
             axis[a].scrollbar = defaultAxis[a].scrollbar)
    /\ [][\A a \in Axes : ~Present(a) =>
             AxisState(axis', dom', a) = AxisState(axis, dom, a)]_vars

\* C20 (as claimed): when something in the thickness probe throws,
\* getScrollbarWidth returns a non-zero width, so that this.scrollbarWidth
\* is positive after the window-resize handler ran, and no error ever
\* leaves the constructor or the handler.
ProbeFailureFallsBack ==
    /\ [](thrown = NoError)
    /\ [][\A env \in ProbeEnvs :
            (/\ ProbeThrows(env)
             /\ \/ ~timers.resize.waiting /\ WindowResize(env)
                \/ timers.resize.again /\ WindowResizeTrailing(env))
            => scrollbarWidth' > 0]_vars

----------------------------------------------------------------------------
(* Claims on overflow, pointer events, the RTL profile, visibility and frames *)

\* the first pass of an axis: the raw comparison of the content's sizes,
\* unless the CSS overflow of the axis is hidden
FirstPass(a) ==
    /\ css.overflow[a] # "hidden"
    /\ IF a = "x"
       THEN geom.x.offsetSize # 0 /\ geom.x.scrollSize > geom.x.offsetSize
       ELSE geom.y.scrollSize > geom.y.wrapperSize

\* C21: after recalculate(), isOverflowing of each axis is its first pass
\* and contentScrollSize > wrapperSize - (scrollbarWidth if the first pass
\* of the other axis overflows, else 0): only first-pass results enter, so
\* the order of the two corrections does not matter.
CrossAxisCorrection ==
    elStyles =>
        \A a \in Axes :
            axis[a].isOverflowing =
                (/\ FirstPass(a)
                 /\ geom[a].scrollSize >
                        geom[a].wrapperSize
                        - (IF FirstPass(Other(a)) THEN scrollbarWidth ELSE 0))

\* x overflows only because the overflowing y axis takes its scrollbar's width
OverflowsForTheOtherScrollbar ==
    /\ elStyles
    /\ scrollbarWidth > 0
    /\ axis.x.isOverflowing
    /\ axis.y.isOverflowing
    /\ geom.x.scrollSize <= geom.x.wrapperSize
    /\ scroll.y # RatInt(0)

\* the track of axis a takes pointer events: the axis overflows or is forced
TrackActive(a) == axis[a].isOverflowing \/ axis[a].forceVisible

\* the position of the pointer event e is in no active track
OutsideTracks(e) ==
    \A a \in Axes : ~(TrackActive(a) /\ PointWithin(e.x, e.y, TrackRect(a)))

\* C22 (as claimed): a pointer-down whose position is outside the track of
\* every overflowing or force-visible axis starts no drag and leaves
\* isDragging, draggedAxis and both dragOffset values as they were.
StrayPointerIgnored ==
    [][\A e \in PointerEvents :
          (PointerDown(e) /\ OutsideTracks(e))
          => /\ isDragging' = isDragging
             /\ draggedAxis' = draggedAxis
             /\ \A a \in Axes : axis'[a].dragOffset = axis[a].dragOffset]_vars

\* C23: once the RTL profile is cached, every later getRtlHelpers() call
\* returns it, leaves it as it is and probes nothing, whatever a probe
\* would measure now; the cached profile never changes.
RtlProfileCreatedOnce ==
    /\ [](rtlHelpers # NotProbed =>
            \A env \in RtlEnvs :
                getRtlHelpersCall(rtlHelpers, env) =
                    [result |-> rtlHelpers, cache |-> rtlHelpers, probed |-> FALSE])
    /\ [][rtlHelpers # NotProbed => rtlHelpers' = rtlHelpers]_vars

\* the cache, empty after construction, was filled by a later call, and the
\* handle has moved since
RtlProfileFilledLater ==
    /\ rtlHelpers = PositiveRtl
    /\ css.direction = "ltr"
    /\ scroll.x # RatInt(0)
    /\ dom.scrollbarOffset.x # <<0>>
    /\ dom.scrollbarOffset.x # <<>>

\* C24 (as claimed): a handle marked visible belongs to an axis that
\* overflows: scrollbar.isVisible implies isOverflowing, on both axes, always.
VisibleOnlyWhenOverflowing ==
    \A a \in Axes : axis[a].scrollbar.isVisible => axis[a].isOverflowing

\* no handle is marked visible and the widget is not scrolling
AllHidden ==
    /\ \A a \in Axes : ~axis[a].scrollbar.isVisible /\ ~dom.visibleClass[a]
    /\ ~isScrolling

HandleWithinTrack ==
    \A a \in Axes :
        InSync(a) => /\ StyleOffset(dom, a) >= 0
                     /\ StyleOffset(dom, a) <= Travel(a)

\* the frame callback onScroll requests for axis a
ScrollFrame(a) == IF a = "x" THEN "scrollX" ELSE "scrollY"

Ticking(a) == IF a = "x" THEN scrollXTicking ELSE scrollYTicking

\* every scroll event was delivered and no scroll callback of axis a waits
ScrollSettled(a) ==
    /\ Idle
    /\ ~scrollEventDue
    /\ PendingFrames(ScrollFrame(a)) = 0

\* C27: however scroll events, from the user or from drag writes, and frame
\* callbacks interleave, the ticking flag of an axis is true exactly while a
\* scroll callback of the axis is pending, and once the scroll events are
\* delivered and the callbacks have run the handle of an overflowing axis is
\* at the offset computed from the current scroll offset.
NoScrollUpdateLost ==
    \A a \in Axes :
        /\ Ticking(a) <=> PendingFrames(ScrollFrame(a)) > 0
        /\ (ScrollSettled(a) /\ elStyles /\ axis[a].isOverflowing /\ els.scrollbar[a])
              => dom.scrollbarOffset[a] = <<writtenOffset(axis, isRtl, a)>>

\* a drag wrote a scroll offset, its scroll events were coalesced into frames
\* and the frames ran: the handle is where the scroll offset puts it
DragScrollSettled ==
    \E a \in Axes :
        /\ isDragging /\ draggedAxis = a
        /\ ScrollSettled(a)
        /\ axis[a].isOverflowing
        /\ scroll[a] # RatInt(0)
        /\ framePositions[a] = 1
        /\ dom.scrollbarOffset[a] = <<writtenOffset(axis, isRtl, a)>>
        /\ dom.scrollbarOffset[a] # <<0>>

====
